---- MODULE Spec2Model ----
(***************************************************************************)
(* StressView wearable firmware (src/hardware/DeviceCode.cpp).             *)
(*                                                                         *)
(* The model follows the firmware's globals.  Four specifications share    *)
(* the variables:                                                          *)
(*   Spec       the control loop, the BLE command callback, the hourly     *)
(*              aggregator and the rotating storage, on a short horizon;   *)
(*   SpecDay    the same operations stepped hour by hour over more than a  *)
(*              day;                                                       *)
(*   SpecTime   getCurrentTime applied to ticks over the whole 32-bit      *)
(*              range;                                                     *)
(*   SpecFusion calculateStressIndex applied to sensor values drawn from   *)
(*              bounded sets.                                              *)
(*                                                                         *)
(* Number representation.  millis() is an unsigned 32-bit counter; it is   *)
(* kept as two 16-bit limbs [hi, lo] so that the arithmetic modulo 2^32 is *)
(* exact.  C floats are fixed-point integers: FP units per 1.0 for stress, *)
(* GSR and HRV values, VP units per 1.0 for the motion variance.           *)
(***************************************************************************)
EXTENDS Integers, Sequences, FiniteSets, TLC

\* ------------------------------------------------------------------------
\* Program constants
\* ------------------------------------------------------------------------
HOURS_PER_DAY == 24
IR_BUFFER_SIZE == 128
GSR_BUFFER_SIZE == 50
MOTION_BUFFER_SIZE == 50
PEAK_BUFFER_SIZE == 10
DAYS_TO_STORE == 7
HRV_WARMUP_COUNT == 20
BUFFER_SIZE == 30
\* sizeof(todayData): the byte length putBytes stores and getBytesLength
\* returns for a slot written by this firmware
SizeofTodayData == 336
\* fixed-point resolution of the float quantities
FP == 100
VP == 1000
Limb == 65536

\* ------------------------------------------------------------------------
\* Bounds of the exploration
\* ------------------------------------------------------------------------
\* Spec: loop iterations of 1 s are taken while the second-of-minute of the
\* tick is below MaxSeconds, of 1 min while the minute-of-hour is below
\* MaxMinutes, of 1 h while the elapsed hours are below MaxHours.
MaxSeconds == 1
MaxMinutes == 1
MaxHours == 1
\* SpecDay: hours of elapsed monotonic time
MaxDayHours == 26
\* SpecFusion: number of evaluation cycles
MaxCycles == 2

\* ------------------------------------------------------------------------
\* unsigned long (32 bit) as two 16-bit limbs
\* ------------------------------------------------------------------------
U32(h, l) == [hi |-> h, lo |-> l]
U32Zero == U32(0, 0)
U32Max == U32(Limb - 1, Limb - 1)

\* a + b modulo 2^32
U32Add(a, b) ==
  LET l == a.lo + b.lo
  IN  U32((a.hi + b.hi + (l \div Limb)) % Limb, l % Limb)

\* the limbs of a small non-negative integer
U32OfInt(n) == U32(n \div Limb, n % Limb)

\* a - b modulo 2^32 (unsigned subtraction)
U32Sub(a, b) ==
  LET borrow == IF a.lo < b.lo THEN 1 ELSE 0
  IN  U32((a.hi - b.hi - borrow + 2 * Limb) % Limb, (a.lo - b.lo + Limb) % Limb)

U32Geq(a, b) == a.hi > b.hi \/ (a.hi = b.hi /\ a.lo >= b.lo)

\* a / 1000 (fits an integer: at most 4294967)
U32Div1000(a) ==
  LET q1 == a.hi \div 1000
      r1 == a.hi % 1000
  IN  q1 * Limb + ((r1 * Limb + a.lo) \div 1000)

\* ------------------------------------------------------------------------
\* Data model
\* ------------------------------------------------------------------------
Hours == 0 .. (HOURS_PER_DAY - 1)
Days == 0 .. (DAYS_TO_STORE - 1)

\* struct HourlySummary
HourlySummary(h, aS, pS, hM, aHR, aHRV, aGSR, n, aAct) ==
  [hour |-> h, avgStress |-> aS, peakStress |-> pS, highStressMins |-> hM,
   avgHR |-> aHR, avgHRV |-> aHRV, avgGSR |-> aGSR, sampleCount |-> n,
   avgActivityLevel |-> aAct]

\* memset(todayData, 0, ...) followed by todayData[i].hour = i
EmptyDay == [i \in Hours |-> HourlySummary(i, 0, 0, 0, 0, 0, 0, 0, 0)]

\* memset(&hourAccum, 0, ...) followed by hourAccum.lastMinute = 255
EmptyAccum ==
  [stressSum |-> 0, hrSum |-> 0, hrvSum |-> 0, gsrSum |-> 0,
   sampleCount |-> 0, hrSampleCount |-> 0, peakStress |-> 0,
   highStressMins |-> 0, lastMinute |-> 255,
   highStressThisMinute |-> FALSE, activitySum |-> 0]

\* a key of the Preferences namespace that was never written, or removed
NoSlot == [len |-> 0, data |-> EmptyDay]
\* the value putBytes stores under "day<d>"
Slot(day) == [len |-> SizeofTodayData, data |-> day]

\* SyncedTime syncedTime = {0, 0, 0, 1, 1, 2025, 0, false}
InitSyncedTime ==
  [hour |-> 0, minute |-> 0, second |-> 0, day |-> 1, month |-> 1,
   year |-> 2025, millisAtSync |-> U32Zero, isValid |-> FALSE]

VARIABLES
  now,                  \* the value millis() returns
  calibrationStartTime, calibrationComplete, devicePoweredOff,
  hrSensorActive, mpuReady,
  syncedTime, lastSyncedDay, clockOut,
  currentHour, lastHourCheck, lastAccumUpdate,
  currentDay, todayData, hourAccum, prefs, bleHistoryDirty,
  commandValue,         \* value of the Command characteristic
  stressIndex, stressIndexDisplay,
  currentGSR, currentHR, currentHRV, currentActivity, motionVariance,
  longTermHRV, count, baselineGSR, gsrMaxSwing,
  physiologicalToMotionRatio, previousHR, previousGSR,
  smoothedStressData, smoothedStressDisplay, previousAdjustedStress,
  pc,                   \* position of the control loop: "loop" or "check"
  hourTransitions, startDay,   \* history: hour changes seen by checkHourChange
  cycles,                      \* history: fusion evaluations done
  bleTodayBuffer, bleWeekBuffer,   \* export buffers = characteristic values
  liveValue,            \* value of the Live characteristic (last notification)
  deviceConnected, lastBLENotify, motionDetected,
  reads, lastRead,      \* history: characteristic reads served, and the last
  rrBuffer, head,       \* RR-interval ring buffer (count is declared above)
  lastRR,               \* history: argument of the last addRRInterval call
  beats,                \* history: addRRInterval calls made
  rrStored,             \* history: the intervals addRRInterval stored,
                        \* oldest first, the last BUFFER_SIZE of them
  detector,             \* the globals of the beat detector
  pulsePeriod,          \* history: the heart period of the steady stretch
  gsrHead, gsrCount,    \* cursor and fill of the GSR ring of updateGSR
  motionBufferIndex,    \* cursor of the motion ring of updateMotion
  lastRawStress, lastGsrScore,   \* history: locals rawStress and gsrScore of
                                 \* the last calculateStressIndex call
  racePc, snap,         \* a getCurrentTime call in progress in the loop
                        \* task, or a Week read callback in the BLE task
  credited              \* history: the minutes counted into highStressMins
                        \* since the accumulator was last reset

clockVars == <<now, syncedTime, lastSyncedDay, clockOut, commandValue>>
loopVars == <<pc, calibrationStartTime, calibrationComplete,
              devicePoweredOff, hrSensorActive, mpuReady, lastHourCheck,
              lastAccumUpdate>>
storeVars == <<currentHour, currentDay, todayData, hourAccum, prefs,
               bleHistoryDirty, hourTransitions, startDay>>
sensorVars == <<stressIndex, currentGSR, currentHR, currentHRV,
                currentActivity>>
fusionVars == <<stressIndexDisplay, motionVariance, longTermHRV, count,
                baselineGSR, gsrMaxSwing, physiologicalToMotionRatio,
                previousHR, previousGSR, smoothedStressData,
                smoothedStressDisplay, previousAdjustedStress, cycles>>
bleVars == <<bleTodayBuffer, bleWeekBuffer, liveValue, deviceConnected,
             lastBLENotify, motionDetected, reads, lastRead>>
ringVars == <<gsrHead, gsrCount, motionBufferIndex>>
hrvVars == <<rrBuffer, head, lastRR, beats, rrStored, detector,
             pulsePeriod, ringVars>>
probeVars == <<lastRawStress, lastGsrScore, credited>>
raceVars == <<racePc, snap>>
vars == <<clockVars, loopVars, storeVars, sensorVars, fusionVars, bleVars,
          hrvVars, probeVars, raceVars>>

\* ------------------------------------------------------------------------
\* Time synchronizer
\* ------------------------------------------------------------------------
HMS(h, m, s) == [hour |-> h, minute |-> m, second |-> s]

\* the wraparound branch without its final + 1
ElapsedMillisNoCarry(st, cm) ==
  IF U32Geq(cm, st.millisAtSync)
    THEN U32Sub(cm, st.millisAtSync)
    ELSE U32Add(U32Sub(U32Max, st.millisAtSync), cm)

\* elapsedMillis of getCurrentTime: currentMillis - millisAtSync, or
\* (0xFFFFFFFF - millisAtSync) + currentMillis + 1 after a wraparound
ElapsedMillis(st, cm) ==
  IF U32Geq(cm, st.millisAtSync)
    THEN U32Sub(cm, st.millisAtSync)
    ELSE U32Add(U32Add(U32Sub(U32Max, st.millisAtSync), cm), U32OfInt(1))

\* getCurrentTime without the early return on an invalid synced time
GetCurrentTimeNoValidCheck(st, cm) ==
  LET elapsedSeconds == U32Div1000(ElapsedMillis(st, cm))
      totalSeconds == st.second + elapsedSeconds
      totalMinutes == st.minute + (totalSeconds \div 60)
      totalHours == st.hour + (totalMinutes \div 60)
  IN  HMS(totalHours % 24, totalMinutes % 60, totalSeconds % 60)

\* void getCurrentTime(uint8_t &hour, uint8_t &minute, uint8_t &second);
\* st is syncedTime and cm the value millis() returns inside the call
GetCurrentTime(st, cm) ==
  IF ~st.isValid
    THEN HMS(0, 0, 0)
    ELSE LET elapsedSeconds == U32Div1000(ElapsedMillis(st, cm))
             totalSeconds == st.second + elapsedSeconds
             totalMinutes == st.minute + (totalSeconds \div 60)
             totalHours == st.hour + (totalMinutes \div 60)
         IN  HMS(totalHours % 24, totalMinutes % 60, totalSeconds % 60)

\* value[i] of the written String (0-based), a byte 0..255
ByteAt(value, i) == value[i + 1]

\* the year with its two bytes taken in the other order
DecodeYearBigEndian(value) ==
  (ByteAt(value, 1) * 256 + ByteAt(value, 2)) % 65536

\* uint16_t year = ((uint16_t)value[2] << 8) | (uint16_t)value[1];
DecodeYear(value) == (ByteAt(value, 2) * 256 + ByteAt(value, 1)) % 65536

\* the validation without the upper bound on the year
SyncAcceptedNoUpperYear(value) ==
  /\ Len(value) >= 8
  /\ ByteAt(value, 0) = 1
  /\ DecodeYear(value) >= 2024
  /\ ByteAt(value, 3) >= 1 /\ ByteAt(value, 3) <= 12
  /\ ByteAt(value, 4) >= 1 /\ ByteAt(value, 4) <= 31
  /\ ByteAt(value, 5) < 24 /\ ByteAt(value, 6) < 60 /\ ByteAt(value, 7) < 60

\* the validation of the time-sync payload in CommandCallbacks::onWrite
SyncAccepted(value) ==
  /\ Len(value) >= 8
  /\ ByteAt(value, 0) = 1
  /\ DecodeYear(value) >= 2024 /\ DecodeYear(value) <= 2100
  /\ ByteAt(value, 3) >= 1 /\ ByteAt(value, 3) <= 12
  /\ ByteAt(value, 4) >= 1 /\ ByteAt(value, 4) <= 31
  /\ ByteAt(value, 5) < 24 /\ ByteAt(value, 6) < 60 /\ ByteAt(value, 7) < 60

\* the SyncedTime written by an accepted time sync at tick cm
SyncedFrom(value, cm) ==
  [hour |-> ByteAt(value, 5), minute |-> ByteAt(value, 6),
   second |-> ByteAt(value, 7), day |-> ByteAt(value, 4),
   month |-> ByteAt(value, 3), year |-> DecodeYear(value),
   millisAtSync |-> cm, isValid |-> TRUE]

\* CommandCallbacks::onWrite: the BLE stack has stored value in the Command
\* characteristic and calls the callback at tick now
OnWrite(value) ==
  /\ pc = "loop"
  /\ commandValue' = value
  /\ IF Len(value) > 0 /\ SyncAccepted(value)
       THEN /\ syncedTime' = SyncedFrom(value, now)
            /\ lastSyncedDay' = ByteAt(value, 4)
            /\ clockOut' = GetCurrentTime(syncedTime', now)
            /\ currentHour' = clockOut'.hour
            /\ hourTransitions' = 0
            /\ startDay' = currentDay
            /\ UNCHANGED bleHistoryDirty
       ELSE /\ bleHistoryDirty' =
                 IF Len(value) > 0 /\ ByteAt(value, 0) = 2
                   THEN TRUE ELSE bleHistoryDirty
            /\ UNCHANGED <<syncedTime, lastSyncedDay, clockOut, currentHour,
                           hourTransitions, startDay>>
  /\ UNCHANGED <<now, loopVars, currentDay, todayData, hourAccum, prefs,
                 sensorVars, fusionVars, bleTodayBuffer, bleWeekBuffer,
                 liveValue, deviceConnected, lastBLENotify, motionDetected,
                 reads, lastRead, hrvVars, probeVars, raceVars>>

\* ------------------------------------------------------------------------
\* Hourly aggregator and storage manager
\* ------------------------------------------------------------------------
\* (millis() / 60000) % 60 and (millis() / 3600000) % 24
TickMinute(cm) == (U32Div1000(cm) \div 60) % 60
TickHour(cm) == (U32Div1000(cm) \div 3600) % 24

\* void updateHourlyAccumulator(); acc is hourAccum, cm the tick, st the
\* synced time, rd the current sensor values.  The uint32_t sums stay far
\* below 2^32 within the bounds; the narrower counters wrap.
UpdateHourlyAccumulator(acc, cm, st, cal, hrAct, rd) ==
  IF ~cal THEN acc
  ELSE
    LET hrOk == hrAct /\ rd.currentHR > 0
        stressByte == (rd.stressIndex \div FP) % 256
        currentMinute == IF st.isValid THEN GetCurrentTime(st, cm).minute
                         ELSE TickMinute(cm)
        minuteChanged == currentMinute # acc.lastMinute
        minsAfter == IF minuteChanged /\ acc.highStressThisMinute
                       THEN (acc.highStressMins + 1) % 256
                       ELSE acc.highStressMins
        flagAfter == IF minuteChanged THEN FALSE
                     ELSE acc.highStressThisMinute
    IN  [stressSum |-> acc.stressSum + (rd.stressIndex \div FP),
         gsrSum |-> acc.gsrSum + (rd.currentGSR \div FP),
         hrSum |-> IF hrOk THEN acc.hrSum + rd.currentHR ELSE acc.hrSum,
         hrvSum |-> IF hrOk THEN acc.hrvSum + (rd.currentHRV \div FP)
                    ELSE acc.hrvSum,
         hrSampleCount |-> IF hrOk THEN (acc.hrSampleCount + 1) % 65536
                           ELSE acc.hrSampleCount,
         activitySum |-> acc.activitySum + rd.currentActivity,
         sampleCount |-> (acc.sampleCount + 1) % 65536,
         peakStress |-> IF stressByte > acc.peakStress THEN stressByte
                        ELSE acc.peakStress,
         highStressMins |-> minsAfter,
         lastMinute |-> IF minuteChanged THEN currentMinute
                        ELSE acc.lastMinute,
         highStressThisMinute |-> IF rd.stressIndex > 70 * FP THEN TRUE
                                  ELSE flagAfter]

\* the record with the heart-rate average taken over all samples
SummaryOfHrOverAllSamples(hour, acc) ==
  HourlySummary(hour,
                (acc.stressSum \div acc.sampleCount) % 256,
                acc.peakStress,
                acc.highStressMins,
                (acc.hrSum \div acc.sampleCount) % 256,
                IF acc.hrSampleCount > 0
                  THEN (acc.hrvSum \div acc.hrSampleCount) % 65536 ELSE 0,
                (acc.gsrSum \div acc.sampleCount) % 65536,
                acc.sampleCount,
                (acc.activitySum \div acc.sampleCount) % 256)

\* the record saveHourlyData writes into todayData[hour]
\* the summary with the stress sum divided by the number of heart-rate
\* samples
SummaryOfStressOverHrSamples(hour, acc) ==
  HourlySummary(hour,
                IF acc.hrSampleCount > 0
                  THEN (acc.stressSum \div acc.hrSampleCount) % 256 ELSE 0,
                acc.peakStress,
                acc.highStressMins,
                IF acc.hrSampleCount > 0
                  THEN (acc.hrSum \div acc.hrSampleCount) % 256 ELSE 0,
                IF acc.hrSampleCount > 0
                  THEN (acc.hrvSum \div acc.hrSampleCount) % 65536 ELSE 0,
                (acc.gsrSum \div acc.sampleCount) % 65536,
                acc.sampleCount,
                (acc.activitySum \div acc.sampleCount) % 256)

SummaryOf(hour, acc) ==
  HourlySummary(hour,
                (acc.stressSum \div acc.sampleCount) % 256,
                acc.peakStress,
                acc.highStressMins,
                IF acc.hrSampleCount > 0
                  THEN (acc.hrSum \div acc.hrSampleCount) % 256 ELSE 0,
                IF acc.hrSampleCount > 0
                  THEN (acc.hrvSum \div acc.hrSampleCount) % 65536 ELSE 0,
                (acc.gsrSum \div acc.sampleCount) % 65536,
                acc.sampleCount,
                (acc.activitySum \div acc.sampleCount) % 256)

\* the key of the following day
SaveKeyNextDay(cd) == (cd + 1) % DAYS_TO_STORE

\* the slot key saveHourlyData writes: "day" + String(currentDay)
SaveKey(cd) == cd

\* saveHourlyData storing a zero record for an hour without samples
SaveHourlyDataZeroing(hour, acc, td, pf, cd) ==
  IF hour < 0 \/ hour >= HOURS_PER_DAY THEN [todayData |-> td, prefs |-> pf]
  ELSE LET td2 == [td EXCEPT ![hour] =
                     IF acc.sampleCount = 0
                       THEN HourlySummary(hour, 0, 0, 0, 0, 0, 0, 0, 0)
                       ELSE SummaryOf(hour, acc)]
       IN  [todayData |-> td2,
            prefs |-> [pf EXCEPT !.day[SaveKey(cd)] = Slot(td2)]]

\* void saveHourlyData(int hour); returns the day buffer and the persisted
\* namespace after the call
SaveHourlyData(hour, acc, td, pf, cd) ==
  IF hour < 0 \/ hour >= HOURS_PER_DAY THEN [todayData |-> td, prefs |-> pf]
  ELSE IF acc.sampleCount = 0 THEN [todayData |-> td, prefs |-> pf]
  ELSE LET td2 == [td EXCEPT ![hour] = SummaryOf(hour, acc)]
       IN  [todayData |-> td2,
            prefs |-> [pf EXCEPT !.day[SaveKey(cd)] = Slot(td2)]]

\* loadTodayData without the test of the slot length
LoadTodayDataAnyLength(pf, cd) == pf.day[cd].data

\* void loadTodayData(); the day buffer after loading slot cd
LoadTodayData(pf, cd) ==
  IF pf.day[cd].len = SizeofTodayData THEN pf.day[cd].data ELSE EmptyDay

\* the day-rollover decision of checkHourChange (lines 672-685)
DayRollover(st, lsd, oldHour, newHour) ==
  IF st.isValid THEN st.day # lsd
  ELSE newHour = 0 /\ oldHour = 23

\* void checkHourChange(); s holds the globals the function reads and
\* writes, st is syncedTime and cm the tick.  Returns the globals after.
CheckHourChange(s, st, cm) ==
  LET newHour == IF st.isValid THEN GetCurrentTime(st, cm).hour
                 ELSE TickHour(cm)
  IN
  IF s.currentHour = -1 THEN [s EXCEPT !.currentHour = newHour]
  ELSE IF newHour = s.currentHour THEN s
  ELSE
    LET oldHour == s.currentHour
        saved == SaveHourlyData(s.currentHour, s.hourAccum, s.todayData,
                                s.prefs, s.currentDay)
        dayRollover == DayRollover(st, s.lastSyncedDay, oldHour, newHour)
        newDay == (s.currentDay + 1) % DAYS_TO_STORE
    IN  [currentHour |-> newHour,
         hourAccum |-> EmptyAccum,
         bleHistoryDirty |-> TRUE,
         lastSyncedDay |-> IF dayRollover /\ st.isValid THEN st.day
                           ELSE s.lastSyncedDay,
         currentDay |-> IF dayRollover THEN newDay ELSE s.currentDay,
         prefs |-> IF dayRollover
                     THEN [saved.prefs EXCEPT !.currentDay = newDay]
                     ELSE saved.prefs,
         todayData |-> IF dayRollover THEN EmptyDay ELSE saved.todayData,
         hourTransitions |-> s.hourTransitions + 1]

\* ------------------------------------------------------------------------
\* BLE export: live record, Today and Week buffers
\* ------------------------------------------------------------------------
\* the flags byte packTodayData builds for one record (lines 1462-1463)
TodayFlags(rec) ==
  (IF rec.sampleCount > 0 THEN 1 ELSE 0) + 2 * (rec.avgActivityLevel % 4)

\* the record bytes with the two HRV bytes in the other order
TodayByteBigEndian(rec, j) ==
  CASE j = 0 -> rec.hour
    [] j = 1 -> rec.avgStress
    [] j = 2 -> rec.peakStress
    [] j = 3 -> rec.highStressMins
    [] j = 4 -> rec.avgHR
    [] j = 5 -> (rec.avgHRV \div 256) % 256
    [] j = 6 -> rec.avgHRV % 256
    [] j = 7 -> rec.avgGSR % 256
    [] j = 8 -> (rec.avgGSR \div 256) % 256
    [] OTHER -> TodayFlags(rec)

\* buffer[offset + j] of packTodayData for the record rec
TodayByte(rec, j) ==
  CASE j = 0 -> rec.hour
    [] j = 1 -> rec.avgStress
    [] j = 2 -> rec.peakStress
    [] j = 3 -> rec.highStressMins
    [] j = 4 -> rec.avgHR
    [] j = 5 -> rec.avgHRV % 256
    [] j = 6 -> (rec.avgHRV \div 256) % 256
    [] j = 7 -> rec.avgGSR % 256
    [] j = 8 -> (rec.avgGSR \div 256) % 256
    [] OTHER -> TodayFlags(rec)

\* void packTodayData(uint8_t* buffer): the 240 bytes, buffer[k-1] at k
PackTodayData(td) ==
  [k \in 1 .. (HOURS_PER_DAY * 10) |->
     TodayByte(td[(k - 1) \div 10], (k - 1) % 10)]

\* the locals of packWeekData before the hour loop
WeekAccInit ==
  [stressSum |-> 0, hrSum |-> 0, hrvSum |-> 0, peakStress |-> 0,
   peakHour |-> 0, highMins |-> 0, validHours |-> 0]

\* one pass of the hour loop of packWeekData; highMins is a uint8_t
WeekHour(acc, rec, h) ==
  IF rec.sampleCount > 0
    THEN [stressSum |-> acc.stressSum + rec.avgStress,
          hrSum |-> acc.hrSum + rec.avgHR,
          hrvSum |-> acc.hrvSum + rec.avgHRV,
          highMins |-> (acc.highMins + rec.highStressMins) % 256,
          validHours |-> acc.validHours + 1,
          peakStress |-> IF rec.peakStress > acc.peakStress
                           THEN rec.peakStress ELSE acc.peakStress,
          peakHour |-> IF rec.peakStress > acc.peakStress
                         THEN h ELSE acc.peakHour]
    ELSE acc

\* the locals after the passes for hours 0 .. h-1
RECURSIVE WeekAggregate(_, _)
WeekAggregate(dayData, h) ==
  IF h = 0 THEN WeekAccInit
  ELSE WeekHour(WeekAggregate(dayData, h - 1), dayData[h - 1], h - 1)

\* the locals of packWeekData for day d after its hour loop, which runs
\* only if the persisted slot has the size of the day buffer
DayStats(pf, d) ==
  IF pf.day[d].len = SizeofTodayData
    THEN WeekAggregate(pf.day[d].data, HOURS_PER_DAY)
    ELSE WeekAccInit

\* buffer[offset + j] of packWeekData for day d with the locals st
WeekByte(st, d, j) ==
  LET v == st.validHours
  IN  CASE j = 0 -> d
        [] j = 1 -> IF v > 0 THEN (st.stressSum \div v) % 256 ELSE 0
        [] j = 2 -> st.peakStress
        [] j = 3 -> st.peakHour
        [] j = 4 -> st.highMins
        [] j = 5 -> IF v > 0 THEN (st.hrSum \div v) % 256 ELSE 0
        [] j = 6 -> IF v > 0 THEN (st.hrvSum \div v) % 256 ELSE 0
        [] j = 7 -> IF v > 0 THEN ((st.hrvSum \div v) \div 256) % 256 ELSE 0
        [] j = 8 -> 0
        [] OTHER -> IF v > 0 THEN 1 ELSE 0

\* void packWeekData(uint8_t* buffer): the 70 bytes, buffer[k-1] at k
PackWeekData(pf) ==
  [k \in 1 .. (DAYS_TO_STORE * 10) |->
     WeekByte(DayStats(pf, (k - 1) \div 10), (k - 1) \div 10, (k - 1) % 10)]

\* the buffers as initBLE leaves them: zeros with the index bytes set
InitTodayBuffer ==
  [k \in 1 .. (HOURS_PER_DAY * 10) |->
     IF (k - 1) % 10 = 0 THEN (k - 1) \div 10 ELSE 0]
InitWeekBuffer ==
  [k \in 1 .. (DAYS_TO_STORE * 10) |->
     IF (k - 1) % 10 = 0 THEN (k - 1) \div 10 ELSE 0]

\* the status byte without the mask on the activity level
StatusByteUnmasked(hrAct, cal, motion, act, mpu) ==
  (IF hrAct THEN 1 ELSE 0) + (IF cal THEN 2 ELSE 0)
  + (IF motion THEN 4 ELSE 0) + act * 16 + (IF mpu THEN 128 ELSE 0)

\* buffer[6] of updateBLEData
StatusByte(hrAct, cal, motion, act, mpu) ==
  (IF hrAct THEN 1 ELSE 0) + (IF cal THEN 2 ELSE 0)
  + (IF motion THEN 4 ELSE 0) + (act % 4) * 8 + (IF mpu THEN 128 ELSE 0)

\* the 7 bytes updateBLEData notifies; rd holds the sensor globals.  The
\* float values are truncated by the integer casts.
UpdateBLEData(rd, hrAct, cal, motion, mpu) ==
  LET stress == IF rd.stressIndex < 0 THEN 0
                ELSE IF rd.stressIndex > 100 * FP THEN 100 * FP
                ELSE rd.stressIndex
      hrv16 == (rd.currentHRV \div FP) % 65536
      gsr16 == (rd.currentGSR \div FP) % 65536
  IN  << stress \div FP, rd.currentHR, hrv16 % 256, hrv16 \div 256,
         gsr16 % 256, gsr16 \div 256,
         StatusByte(hrAct, cal, motion, rd.currentActivity, mpu) >>

\* a Week read that packs the week buffer whatever the flag says
WeekReadBufferAlways(dirty, buf, pf) == PackWeekData(pf)

\* bleWeekBuffer after WeekReadCallback::onRead
WeekReadBuffer(dirty, buf, pf) ==
  IF dirty THEN PackWeekData(pf) ELSE buf

\* WeekReadCallback::onRead: rebuild the week buffer if the flag is set,
\* clear the flag; the characteristic takes the buffer as its value
OnWeekRead ==
  /\ pc = "loop"
  /\ bleWeekBuffer' = WeekReadBuffer(bleHistoryDirty, bleWeekBuffer, prefs)
  /\ bleHistoryDirty' = FALSE
  /\ UNCHANGED <<clockVars, loopVars, currentHour, currentDay, todayData,
                 hourAccum, prefs, hourTransitions, startDay, sensorVars,
                 fusionVars, bleTodayBuffer, liveValue, deviceConnected,
                 lastBLENotify, motionDetected, hrvVars, probeVars, raceVars>>

\* a Today read that serves the cached buffer while the flag is clear
TodayReadBufferCached(dirty, buf, td) ==
  IF dirty THEN PackTodayData(td) ELSE buf

\* bleTodayBuffer after TodayReadCallback::onRead: packed on every read
TodayReadBuffer(dirty, buf, td) == PackTodayData(td)

\* TodayReadCallback::onRead: pack the day buffer on every read
OnTodayRead ==
  /\ pc = "loop"
  /\ bleTodayBuffer' = TodayReadBuffer(bleHistoryDirty, bleTodayBuffer,
                                       todayData)
  /\ UNCHANGED <<clockVars, loopVars, storeVars, sensorVars, fusionVars,
                 bleWeekBuffer, liveValue, deviceConnected, lastBLENotify,
                 motionDetected, hrvVars, probeVars, raceVars>>

\* clearAllData removing the slots only
ClearAllDataSlotsOnly ==
  /\ pc = "loop"
  /\ prefs' = [prefs EXCEPT !.day = [d \in Days |-> NoSlot]]
  /\ UNCHANGED <<clockVars, loopVars, currentHour, currentDay, todayData,
                 hourAccum, bleHistoryDirty, hourTransitions, startDay,
                 sensorVars, fusionVars, bleVars, hrvVars, probeVars,
                 raceVars>>

\* void clearAllData(): remove the seven slots, empty the day buffer and
\* the accumulator
ClearAllData ==
  /\ pc = "loop"
  /\ prefs' = [prefs EXCEPT !.day = [d \in Days |-> NoSlot]]
  /\ todayData' = EmptyDay
  /\ hourAccum' = EmptyAccum
  /\ UNCHANGED <<clockVars, loopVars, currentHour, currentDay,
                 bleHistoryDirty, hourTransitions, startDay, sensorVars,
                 fusionVars, bleVars, hrvVars, probeVars, raceVars>>

\* ServerCallbacks::onConnect / onDisconnect
OnConnect ==
  /\ pc = "loop"
  /\ ~deviceConnected
  /\ deviceConnected' = TRUE
  /\ UNCHANGED <<clockVars, loopVars, storeVars, sensorVars, fusionVars,
                 bleTodayBuffer, bleWeekBuffer, liveValue, lastBLENotify,
                 motionDetected, reads, lastRead, hrvVars, probeVars,
                 raceVars>>

OnDisconnect ==
  /\ pc = "loop"
  /\ deviceConnected
  /\ deviceConnected' = FALSE
  /\ UNCHANGED <<clockVars, loopVars, storeVars, sensorVars, fusionVars,
                 bleTodayBuffer, bleWeekBuffer, liveValue, lastBLENotify,
                 motionDetected, reads, lastRead, hrvVars, probeVars,
                 raceVars>>

\* ------------------------------------------------------------------------
\* Control loop
\* ------------------------------------------------------------------------
\* the sensor-derived globals one loop iteration leaves behind
Reading(si, gsr, hr, hrv, act) ==
  [stressIndex |-> si, currentGSR |-> gsr, currentHR |-> hr,
   currentHRV |-> hrv, currentActivity |-> act]

\* currentMillis - since >= n, in unsigned arithmetic
\* the beat detector as setup() (lines 466-483) and wakeFromPowerOff()
\* (lines 1729-1746) leave it
DetectorReset ==
  [irBuffer |-> [i \in 0 .. (IR_BUFFER_SIZE - 1) |-> 0],
   irBufferIndex |-> 0, maxValue |-> 0, minValue |-> 100000,
   peakTimes |-> [i \in 0 .. (PEAK_BUFFER_SIZE - 1) |-> U32Zero],
   peakIndex |-> 0, peakCount |-> 0, currentBPM |-> 0,
   lastPeakTime |-> U32Zero, lastValue |-> 0, peakDetected |-> FALSE,
   lastBeatTime |-> U32Zero]

Elapsed(cm, since, n) == U32Geq(U32Sub(cm, since), U32OfInt(n))

\* void loop() up to the hour check (lines 709-834): one iteration that
\* starts dt ms after the previous one.  hold is the 10-second button hold
\* on the INFO screen (or while powered off); rd are the values the sensing
\* calls (updateMotion, updateHeartRate, updateGSR, calculateStressIndex)
\* leave in their globals.  The iteration continues with LoopCheck when the
\* one-minute gate of the hour check is open.
LoopBody(dt, hold, rd) ==
  LET cm == U32Add(now, U32OfInt(dt))
      calNow == calibrationComplete \/ Elapsed(cm, calibrationStartTime, 5000)
      doOff == hold /\ calNow /\ ~devicePoweredOff
      doWake == hold /\ calNow /\ devicePoweredOff
      \* enterPowerOff(): save the current hour before shutting down
      offSaved == IF doOff /\ currentHour >= 0
                    THEN SaveHourlyData(currentHour, hourAccum, todayData,
                                        prefs, currentDay)
                    ELSE [todayData |-> todayData, prefs |-> prefs]
      off2 == IF doOff THEN TRUE ELSE IF doWake THEN FALSE
              ELSE devicePoweredOff
      sense == ~off2 /\ calNow
      rdNow == Reading(
                 IF sense THEN rd.stressIndex ELSE stressIndex,
                 IF sense THEN rd.currentGSR ELSE currentGSR,
                 IF sense /\ hrSensorActive THEN rd.currentHR
                 ELSE IF doWake /\ hrSensorActive THEN 0 ELSE currentHR,
                 IF sense /\ hrSensorActive THEN rd.currentHRV
                 ELSE currentHRV,
                 IF sense /\ mpuReady THEN rd.currentActivity
                 ELSE currentActivity)
      \* updateMotion(): motionDetected = (motionVariance > 0.02), true for
      \* the readings of the ACTIVE and EXERCISE bands
      motionNow == IF sense /\ mpuReady THEN rd.currentActivity >= 2
                   ELSE motionDetected
      doNotify == sense /\ deviceConnected /\ Elapsed(cm, lastBLENotify, 1000)
      doAccum == sense /\ Elapsed(cm, lastAccumUpdate, 1000)
      doCheck == Elapsed(cm, lastHourCheck, 60000)
  IN  /\ pc = "loop"
      /\ pc' = IF doCheck THEN "check" ELSE "loop"
      /\ now' = cm
      /\ calibrationComplete' = calNow
      /\ devicePoweredOff' = off2
      /\ stressIndex' = rdNow.stressIndex
      /\ currentGSR' = rdNow.currentGSR
      /\ currentHR' = rdNow.currentHR
      /\ currentHRV' = rdNow.currentHRV
      /\ currentActivity' = rdNow.currentActivity
      /\ lastAccumUpdate' = IF doAccum THEN cm ELSE lastAccumUpdate
      /\ hourAccum' = IF doAccum
                        THEN UpdateHourlyAccumulator(hourAccum, cm, syncedTime,
                                                     calNow, hrSensorActive,
                                                     rdNow)
                        ELSE hourAccum
      /\ clockOut' = IF syncedTime.isValid /\ doAccum
                       THEN GetCurrentTime(syncedTime, cm) ELSE clockOut
      /\ prefs' = offSaved.prefs
      /\ todayData' = offSaved.todayData
      /\ UNCHANGED <<calibrationStartTime, hrSensorActive, mpuReady,
                     lastHourCheck, syncedTime, lastSyncedDay, commandValue,
                     currentHour, currentDay, bleHistoryDirty,
                     hourTransitions, startDay, fusionVars>>
      /\ motionDetected' = motionNow
      /\ lastBLENotify' = IF doNotify THEN cm ELSE lastBLENotify
      /\ liveValue' = IF doNotify
                        THEN UpdateBLEData(rdNow, hrSensorActive, calNow,
                                           motionNow, mpuReady)
                        ELSE liveValue
      /\ detector' = IF doWake /\ hrSensorActive THEN DetectorReset
                      ELSE detector
      /\ UNCHANGED <<bleTodayBuffer, bleWeekBuffer, deviceConnected, reads,
                     lastRead, rrBuffer, head, lastRR, beats, rrStored,
                     pulsePeriod, ringVars, lastRawStress, lastGsrScore,
                     raceVars>>

LoopIter(dt, hold, rd) == LoopBody(dt, hold, rd) /\ UNCHANGED credited

\* void loop(), lines 836-840: checkHourChange() and lastHourCheck, run in
\* the iteration whose one-minute gate was open
LoopCheckBody ==
  LET s0 == [currentHour |-> currentHour, hourAccum |-> hourAccum,
             bleHistoryDirty |-> bleHistoryDirty,
             lastSyncedDay |-> lastSyncedDay, currentDay |-> currentDay,
             prefs |-> prefs, todayData |-> todayData,
             hourTransitions |-> hourTransitions]
      s1 == CheckHourChange(s0, syncedTime, now)
  IN  /\ pc = "check"
      /\ pc' = "loop"
      /\ lastHourCheck' = now
      /\ clockOut' = IF syncedTime.isValid
                       THEN GetCurrentTime(syncedTime, now) ELSE clockOut
      /\ currentHour' = s1.currentHour
      /\ hourAccum' = s1.hourAccum
      /\ bleHistoryDirty' = s1.bleHistoryDirty
      /\ lastSyncedDay' = s1.lastSyncedDay
      /\ currentDay' = s1.currentDay
      /\ prefs' = s1.prefs
      /\ todayData' = s1.todayData
      /\ hourTransitions' = s1.hourTransitions
      /\ UNCHANGED <<now, calibrationStartTime, calibrationComplete,
                     devicePoweredOff, hrSensorActive, mpuReady,
                     lastAccumUpdate, syncedTime, commandValue, startDay,
                     sensorVars, fusionVars, bleVars, hrvVars, probeVars,
                     snap>>

LoopCheck == LoopCheckBody /\ UNCHANGED racePc

\* ------------------------------------------------------------------------
\* Inputs of Spec and SpecDay
\* ------------------------------------------------------------------------
SecondMs == 1000
MinuteMs == 60000
HourMs == 3600000
LoopDelays == {SecondMs, MinuteMs, HourMs}

\* the grid of ticks Spec explores (see the bounds)
DelayAllowed(dt) ==
  \/ dt = SecondMs /\ (U32Div1000(now) % 60) < MaxSeconds
  \/ dt = MinuteMs /\ ((U32Div1000(now) \div 60) % 60) < MaxMinutes
  \/ dt = HourMs /\ (U32Div1000(now) \div 3600) < MaxHours

\* sensor values: calm with a heart rate; a stress value just above the
\* high-stress threshold without a heart rate
Readings ==
  { Reading(4550, 2100 * FP, 72, 45 * FP, 1),
    Reading(7050, 2600 * FP, 0, 0, 0) }

\* time-sync payloads: year 2024 is 0x07E8, bytes E8 07
SyncCmd(yLo, yHi, mo, d, h, mi, s) == <<1, yLo, yHi, mo, d, h, mi, s>>
CmdJun15 == SyncCmd(232, 7, 6, 15, 14, 30, 0)
CmdBeforeMidnight == SyncCmd(232, 7, 6, 15, 23, 59, 59)
CmdJun16 == SyncCmd(232, 7, 6, 16, 0, 0, 30)
\* the payload whose year bytes are E8 0F (0x0FE8 = 4072)
CmdYear0FE8 == SyncCmd(232, 15, 6, 15, 14, 30, 0)
ValidSyncCmds == {CmdJun15, CmdBeforeMidnight, CmdJun16}
InvalidSyncCmds ==
  { CmdYear0FE8,
    SyncCmd(231, 7, 6, 15, 14, 30, 0),     \* year 2023
    SyncCmd(53, 8, 6, 15, 14, 30, 0),      \* year 2101
    SyncCmd(232, 7, 0, 15, 14, 30, 0),     \* month 0
    SyncCmd(232, 7, 13, 15, 14, 30, 0),    \* month 13
    SyncCmd(232, 7, 6, 0, 14, 30, 0),      \* day 0
    SyncCmd(232, 7, 6, 32, 14, 30, 0),     \* day 32
    SyncCmd(232, 7, 6, 15, 24, 30, 0),     \* hour 24
    SyncCmd(232, 7, 6, 15, 14, 60, 0),     \* minute 60
    SyncCmd(232, 7, 6, 15, 14, 30, 60),    \* second 60
    <<1, 232, 7, 6, 15, 14, 30>>,          \* 7 bytes
    <<1>> }                                \* opcode only
OtherCmds == { <<2>>, <<3>>, <<>> }
Commands == ValidSyncCmds \cup InvalidSyncCmds \cup OtherCmds
\* the payloads written in Spec
LoopCommands == {CmdBeforeMidnight}

\* records of an earlier run found in flash at startup
OldDay ==
  [EmptyDay EXCEPT ![0] = HourlySummary(0, 40, 75, 3, 70, 42, 2050, 1800, 1),
                   ![1] = HourlySummary(1, 20, 30, 0, 0, 0, 1990, 3600, 0)]
FreshFlash == [currentDay |-> -1, day |-> [d \in Days |-> NoSlot]]
UsedFlash(d) ==
  [currentDay |-> d, day |-> [x \in Days |-> IF x = d THEN Slot(OldDay)
                                              ELSE NoSlot]]
InitFlash == {FreshFlash, UsedFlash(6)}

\* ------------------------------------------------------------------------
\* Initial state: the globals after setup()
\* ------------------------------------------------------------------------
\* the initializers of the fusion globals and statics
InitFusion ==
  /\ stressIndexDisplay = 0
  /\ motionVariance = 0
  /\ longTermHRV = 50 * FP
  /\ count = 0
  /\ baselineGSR = 0
  /\ gsrMaxSwing = 100 * FP
  /\ physiologicalToMotionRatio = 0
  /\ previousHR = 0
  /\ previousGSR = 0
  /\ smoothedStressData = 0
  /\ smoothedStressDisplay = 0
  /\ previousAdjustedStress = 0
  /\ cycles = 0

\* the initializers of the sensor-derived globals
InitSensors ==
  /\ stressIndex = 0
  /\ currentGSR = 0
  /\ currentHR = 0
  /\ currentHRV = 0
  /\ currentActivity = 0

\* initBLE(): the export buffers hold their index bytes and are the values
\* of the Today and Week characteristics; no client, no notification yet
InitBle ==
  /\ bleTodayBuffer = InitTodayBuffer
  /\ bleWeekBuffer = InitWeekBuffer
  /\ liveValue = << >>
  /\ deviceConnected = FALSE
  /\ lastBLENotify = U32Zero
  /\ motionDetected = FALSE
  /\ reads = 0
  /\ lastRead = "none"

\* the zero-initialized RR ring buffer; no fusion evaluation and no
\* getCurrentTime call in progress
\* the history of stored intervals after one more is stored
StoredAfter(st, v) ==
  LET a == Append(st, v)
  IN  IF Len(a) > BUFFER_SIZE THEN Tail(a) ELSE a

InitHrv ==
  /\ rrBuffer = [i \in 0 .. (BUFFER_SIZE - 1) |-> 0]
  /\ head = 0
  /\ lastRR = 0
  /\ beats = 0
  /\ rrStored = << >>
  /\ detector = DetectorReset
  /\ pulsePeriod = 0
  /\ gsrHead = 0
  /\ gsrCount = 0
  /\ motionBufferIndex = 0
  /\ lastRawStress = 0
  /\ lastGsrScore = 0
  /\ credited = {}
  /\ racePc = "idle"
  /\ snap = [begin |-> InitSyncedTime, used |-> InitSyncedTime,
             end |-> InitSyncedTime, at |-> U32Zero, out |-> HMS(0, 0, 0)]

\* setup() with the flash contents flash: initStorage(), sensor bring-up
InitWith(flash, hrOk, mpuOk) ==
  /\ pc = "loop"
  /\ now = U32Zero
  /\ calibrationStartTime = U32Zero
  /\ calibrationComplete = FALSE
  /\ devicePoweredOff = FALSE
  /\ hrSensorActive = hrOk
  /\ mpuReady = mpuOk
  /\ syncedTime = InitSyncedTime
  /\ lastSyncedDay = 0
  /\ clockOut = HMS(0, 0, 0)
  /\ currentHour = -1
  /\ lastHourCheck = U32Zero
  /\ lastAccumUpdate = U32Zero
  /\ prefs = flash
  /\ currentDay = (IF flash.currentDay = -1 THEN 0 ELSE flash.currentDay)
  /\ todayData = LoadTodayData(flash, currentDay)
  /\ hourAccum = EmptyAccum
  /\ bleHistoryDirty = TRUE
  /\ commandValue = << >>
  /\ hourTransitions = 0
  /\ startDay = currentDay
  /\ InitSensors
  /\ InitFusion
  /\ InitBle
  /\ InitHrv

\* sensor bring-up outcomes <<hrSensorActive, mpuReady>> explored
SensorConfigs == { <<TRUE, TRUE>>, <<FALSE, FALSE>> }

\* a first start without the optional sensors, a restart with both
InitConfigs == { <<FreshFlash, FALSE, FALSE>>, <<UsedFlash(6), TRUE, TRUE>> }

Init == \E cfg \in InitConfigs : InitWith(cfg[1], cfg[2], cfg[3])

\* ------------------------------------------------------------------------
\* Spec: control loop and command callback on the tick grid
\* ------------------------------------------------------------------------
Loop ==
  \E dt \in LoopDelays, hold \in BOOLEAN, rd \in Readings :
    /\ DelayAllowed(dt)
    /\ LoopIter(dt, hold, rd)

\* the app writes its time sync once, within MaxSeconds of setup
CommandWrite ==
  \E value \in LoopCommands :
    /\ U32Div1000(now) < MaxSeconds
    /\ value # commandValue
    /\ OnWrite(value)

\* a read of the Week characteristic while the flag is set, before the
\* first hour change (SpecBle reads at any time)
WeekRead ==
  /\ bleHistoryDirty
  /\ hourTransitions = 0
  /\ OnWeekRead
  /\ UNCHANGED <<reads, lastRead>>

Next == Loop \/ LoopCheck \/ CommandWrite \/ WeekRead

Spec == Init /\ [][Next]_vars

\* ------------------------------------------------------------------------
\* SpecDay: hour-by-hour iterations over more than a day
\* ------------------------------------------------------------------------
\* time syncs of SpecDay arrive during the first MaxSyncHours hours
MaxSyncHours == 2
DayFlash == {FreshFlash} \cup {UsedFlash(d) : d \in Days}
DayCommands == {CmdJun15, CmdJun16}
ElapsedHours == U32Div1000(now) \div 3600

InitDay == \E flash \in DayFlash : InitWith(flash, TRUE, TRUE)

\* the sensor values of SpecDay
DayReading == Reading(4550, 2100 * FP, 72, 45 * FP, 1)

LoopHour ==
  /\ ElapsedHours < MaxDayHours
  /\ LoopIter(HourMs, FALSE, DayReading)

DayCommandWrite ==
  \E value \in DayCommands :
    /\ ElapsedHours < MaxSyncHours
    /\ value # commandValue
    /\ OnWrite(value)

NextDay == LoopHour \/ LoopCheck \/ DayCommandWrite

SpecDay == InitDay /\ [][NextDay]_vars

\* ------------------------------------------------------------------------
\* SpecTime: the command callback and getCurrentTime over the tick range
\* ------------------------------------------------------------------------
\* ticks around the second, minute, hour and day boundaries and around the
\* wraparound of the 32-bit counter
TimeTicks ==
  { U32Zero, U32OfInt(1), U32OfInt(999), U32OfInt(1000), U32OfInt(59999),
    U32OfInt(MinuteMs), U32OfInt(HourMs - 1), U32OfInt(HourMs),
    U32OfInt(34200000), U32OfInt(86400000),
    U32(32767, 65535), U32(32768, 0),
    U32(65535, 64536), U32(65535, 65535) }

InitTime == InitWith(FreshFlash, TRUE, TRUE)

\* a call of getCurrentTime at an arbitrary later tick of the counter
ClockRead ==
  \E t \in TimeTicks :
    /\ now' = t
    /\ clockOut' = GetCurrentTime(syncedTime, t)
    /\ pc = "loop"
    /\ UNCHANGED <<syncedTime, lastSyncedDay, commandValue, loopVars,
                   storeVars, sensorVars, fusionVars, bleVars, hrvVars,
                   probeVars, raceVars>>

TimeCommandWrite == \E value \in Commands : OnWrite(value)

NextTime == ClockRead \/ TimeCommandWrite

SpecTime == InitTime /\ [][NextTime]_vars

\* ------------------------------------------------------------------------
\* SpecRace: getCurrentTime in the loop task beside the command callback,
\* which the BLE stack calls from its own task; no lock guards syncedTime
\* ------------------------------------------------------------------------
CmdQuarterToMidnight == SyncCmd(232, 7, 6, 15, 23, 45, 0)
RaceCommands == {CmdJun15, CmdQuarterToMidnight, <<2>>}
RaceTicks == {U32Zero, U32OfInt(MinuteMs), U32OfInt(1800000), U32OfInt(HourMs)}

\* the loop task enters getCurrentTime at a tick t: it tests
\* syncedTime.isValid and reads millis() and syncedTime.millisAtSync
\* (lines 1628-1642)
RaceBegin ==
  \E t \in RaceTicks :
    /\ pc = "loop"
    /\ racePc = "idle"
    /\ U32Geq(t, now)
    /\ now' = t
    /\ racePc' = "reading"
    /\ snap' = [begin |-> syncedTime, used |-> syncedTime,
                end |-> syncedTime, at |-> t, out |-> snap.out]
    /\ UNCHANGED <<calibrationStartTime, calibrationComplete,
                   devicePoweredOff, hrSensorActive, mpuReady, syncedTime,
                   lastSyncedDay, clockOut, commandValue, loopVars,
                   storeVars, sensorVars, fusionVars, bleVars, hrvVars,
                   probeVars>>

\* the loop task finishes the call: it reads syncedTime.second, .minute and
\* .hour (lines 1646-1654) and returns the time of day
RaceEnd ==
  LET used == [syncedTime EXCEPT !.isValid = snap.begin.isValid,
                                 !.millisAtSync = snap.begin.millisAtSync]
      out == GetCurrentTime(used, snap.at)
  IN  /\ pc = "loop"
      /\ racePc = "reading"
      /\ racePc' = "idle"
      /\ clockOut' = out
      /\ snap' = [snap EXCEPT !.used = used, !.end = syncedTime,
                              !.out = out]
      /\ UNCHANGED <<now, calibrationStartTime, calibrationComplete,
                     devicePoweredOff, hrSensorActive, mpuReady, syncedTime,
                     lastSyncedDay, commandValue, loopVars, storeVars,
                     sensorVars, fusionVars, bleVars, hrvVars, probeVars>>

\* the BLE task runs the command callback, before, during or after the call
RaceCommandWrite ==
  \E value \in RaceCommands : value # commandValue /\ OnWrite(value)

NextRace == RaceBegin \/ RaceEnd \/ RaceCommandWrite

SpecRace == InitTime /\ [][NextRace]_vars

\* C12: under every interleaving of the command callback with a
\* getCurrentTime call of the loop, the call returns the time of day of a
\* fully applied SyncedTime: the one in place when the call began or the one
\* in place when it ended
C12_NoTornSync ==
  \/ snap.out = GetCurrentTime(snap.begin, snap.at)
  \/ snap.out = GetCurrentTime(snap.end, snap.at)

\* ------------------------------------------------------------------------
\* SpecBle: the export callbacks beside the control loop
\* ------------------------------------------------------------------------
\* at most MaxBleSteps loop iterations, each 1 min or 1 h after the previous
\* one, are taken; at most MaxReads characteristic reads are served
MaxBleSteps == 2
MaxReads == 2

\* day buffers found in flash.  DayVaried: 16-bit values above 255, every
\* activity level, the peak attained at hours 2 and 3
DayVaried ==
  [EmptyDay EXCEPT
     ![0] = HourlySummary(0, 40, 75, 3, 70, 308, 2050, 1800, 1),
     ![1] = HourlySummary(1, 20, 30, 0, 0, 0, 1990, 3600, 0),
     ![2] = HourlySummary(2, 90, 100, 59, 180, 4660, 4095, 3600, 3),
     ![3] = HourlySummary(3, 81, 100, 40, 121, 65535, 255, 1, 2)]
\* six hours spent above the high-stress threshold throughout
DayHighMins ==
  [h \in Hours |->
     IF h >= 8 /\ h <= 13
       THEN HourlySummary(h, 85, 97, 59, 95, 18, 2900, 3600, 0)
       ELSE EmptyDay[h]]
\* one hour of samples with a stress index below 1 throughout
DayQuiet ==
  [EmptyDay EXCEPT ![5] = HourlySummary(5, 0, 0, 0, 58, 61, 2000, 3600, 0)]

\* a slot written with another record layout: 24 records of 10 bytes
ForeignSlot == [len |-> 240, data |-> DayVaried]

\* a week of slots and the persisted day index cd
WeekFlash(cd) ==
  [currentDay |-> cd,
   day |-> [d \in Days |->
              CASE d = 0 -> Slot(DayVaried)
                [] d = 1 -> Slot(DayHighMins)
                [] d = 2 -> Slot(DayQuiet)
                [] d = 3 -> ForeignSlot
                [] OTHER -> NoSlot]]

BleFlash == {WeekFlash(cd) : cd \in {0, 3, 4}}

\* sensor values: calm while walking; strained during exercise
CalmReading == Reading(4550, 2100 * FP, 72, 308 * FP, 1)
StrainedReading == Reading(9950, 4095 * FP, 180, 12 * FP, 3)

\* the loop iterations taken: <<ms since the previous one, button held,
\* sensor values>>
BleSteps ==
  { <<MinuteMs, FALSE, CalmReading>>,
    <<HourMs, FALSE, StrainedReading>>,
    <<MinuteMs, TRUE, CalmReading>> }

InitBleSpec == \E flash \in BleFlash : InitWith(flash, TRUE, TRUE)

BleLoop ==
  \E st \in BleSteps :
    /\ ElapsedHours + ((U32Div1000(now) \div 60) % 60) < MaxBleSteps
    /\ LoopIter(st[1], st[2], st[3])

\* the app writes the refresh command
BleCommandWrite == OnWrite(<<2>>)

BleWeekRead ==
  /\ reads < MaxReads
  /\ OnWeekRead
  /\ reads' = reads + 1
  /\ lastRead' = "week"

BleTodayRead ==
  /\ reads < MaxReads
  /\ OnTodayRead
  /\ reads' = reads + 1
  /\ lastRead' = "today"

NextBle ==
  \/ BleLoop
  \/ LoopCheck
  \/ BleCommandWrite
  \/ BleWeekRead
  \/ BleTodayRead
  \/ OnConnect
  \/ OnDisconnect

SpecBle == InitBleSpec /\ [][NextBle]_vars

\* ------------------------------------------------------------------------
\* SpecClear: clearAllData beside the control loop
\* ------------------------------------------------------------------------
ClearAll == ClearAllData

NextClear == BleLoop \/ LoopCheck \/ ClearAll

SpecClear == InitBleSpec /\ [][NextClear]_vars

\* a step that serves a read of the Week / Today characteristic
WeekReadStep == reads' = reads + 1 /\ lastRead' = "week"
TodayReadStep == reads' = reads + 1 /\ lastRead' = "today"

\* the empty day buffer as the claims describe it
ClaimedEmptyDay ==
  [h \in 0 .. 23 |->
     [hour |-> h, avgStress |-> 0, peakStress |-> 0, highStressMins |-> 0,
      avgHR |-> 0, avgHRV |-> 0, avgGSR |-> 0, sampleCount |-> 0,
      avgActivityLevel |-> 0]]

\* C13: after setup has loaded the slot of the persisted day index and
\* before the first loop iteration, the day buffer is empty (zeros, hour
\* field of record i equal to i) if that slot is missing or its length is
\* not that of the 24-record buffer, and equals the persisted records if the
\* length matches; the device runs on normally
C13_LoadedBuffer ==
  now = U32Zero =>
    /\ currentDay = prefs.currentDay
    /\ prefs.day[currentDay].len # SizeofTodayData =>
         todayData = ClaimedEmptyDay
    /\ prefs.day[currentDay].len = SizeofTodayData =>
         todayData = prefs.day[currentDay].data
    /\ ~devicePoweredOff
    /\ pc = "loop"

\* the slot of the current day holds 240 bytes of records; the buffer
\* loaded from it is empty
C13_Witness ==
  /\ now = U32Zero
  /\ prefs.day[currentDay].len = 240
  /\ prefs.day[currentDay].data # ClaimedEmptyDay
  /\ todayData = ClaimedEmptyDay

\* the record an app decodes from bytes 10*i .. 10*i+9 of the Today value:
\* 16-bit fields little-endian, flags bit 0 = valid, bits 1-2 = activity
DecodeTodayRecord(buf, i) ==
  LET b(j) == buf[10 * i + j + 1]
  IN  [hour |-> b(0), avgStress |-> b(1), peakStress |-> b(2),
       highStressMins |-> b(3), avgHR |-> b(4),
       avgHRV |-> b(5) + 256 * b(6), avgGSR |-> b(7) + 256 * b(8),
       valid |-> (b(9) % 2 = 1), activity |-> (b(9) \div 2) % 4,
       flags |-> b(9)]

\* the fields of record rec the claim expects to find
ClaimedTodayRecord(rec) ==
  [hour |-> rec.hour, avgStress |-> rec.avgStress,
   peakStress |-> rec.peakStress, highStressMins |-> rec.highStressMins,
   avgHR |-> rec.avgHR, avgHRV |-> rec.avgHRV, avgGSR |-> rec.avgGSR,
   valid |-> (rec.sampleCount > 0), activity |-> rec.avgActivityLevel,
   flags |-> (IF rec.sampleCount > 0 THEN 1 ELSE 0)
             + 2 * rec.avgActivityLevel]

\* C15: a Today read leaves 240 bytes, each in 0..255, from which decoding
\* reproduces hour, avgStress, peakStress, highStressMins, avgHR, avgHRV,
\* avgGSR and the flags (valid = sampleCount > 0, activity) of every hour of
\* the day buffer
C15_TodayRoundTrip ==
  [][ TodayReadStep =>
        /\ Len(bleTodayBuffer') = 240
        /\ \A k \in 1 .. 240 : bleTodayBuffer'[k] \in 0 .. 255
        /\ \A i \in 0 .. 23 :
             DecodeTodayRecord(bleTodayBuffer', i)
               = ClaimedTodayRecord(todayData[i]) ]_vars

\* a Today read has packed a day buffer whose hour 0 has an average HRV of
\* 308 ms (bytes 0x34 0x01) and whose hour 2 is valid with activity 3
C15_Witness ==
  /\ lastRead = "today"
  /\ todayData[0].avgHRV = 308
  /\ bleTodayBuffer[6] = 52 /\ bleTodayBuffer[7] = 1
  /\ todayData[2].sampleCount > 0 /\ todayData[2].avgActivityLevel = 3
  /\ bleTodayBuffer[30] = 7

\* bit k of the byte b
BitOf(b, k) == (b \div (2 ^ k)) % 2
BoolBit(x) == IF x THEN 1 ELSE 0

\* a step in which the loop notifies a live record
NotifyStep == liveValue' # liveValue \/ lastBLENotify' # lastBLENotify

\* C16: a live record is notified only while a client is connected, and it
\* is 7 bytes: byte 0 in 0..100, byte 1 the heart rate, bytes 2-3 and 4-5 the
\* little-endian 16-bit HRV and GSR, and a status byte with bit 0 = HR
\* sensor active, bit 1 = calibrated, bit 2 = motion detected, bits 3-4 =
\* activity level, bit 7 = motion sensor ready and bits 5-6 zero
C16_LiveRecord ==
  [][ NotifyStep =>
        /\ deviceConnected
        /\ Len(liveValue') = 7
        /\ \A k \in 1 .. 7 : liveValue'[k] \in 0 .. 255
        /\ liveValue'[1] \in 0 .. 100
        /\ liveValue'[2] = currentHR'
        /\ liveValue'[3] + 256 * liveValue'[4] = currentHRV' \div FP
        /\ liveValue'[5] + 256 * liveValue'[6] = currentGSR' \div FP
        /\ BitOf(liveValue'[7], 0) = BoolBit(hrSensorActive')
        /\ BitOf(liveValue'[7], 1) = BoolBit(calibrationComplete')
        /\ BitOf(liveValue'[7], 2) = BoolBit(motionDetected')
        /\ (liveValue'[7] \div 8) % 4 = currentActivity'
        /\ currentActivity' \in 0 .. 3
        /\ BitOf(liveValue'[7], 5) = 0
        /\ BitOf(liveValue'[7], 6) = 0
        /\ BitOf(liveValue'[7], 7) = BoolBit(mpuReady') ]_vars

\* a record notified during exercise: stress 99, 180 bpm, HRV 12 ms, GSR
\* 4095 (bytes 0xFF 0x0F), status 0x9F
C16_Witness ==
  /\ deviceConnected
  /\ liveValue = <<99, 180, 12, 0, 255, 15, 159>>

\* the hours of the persisted records of day d with a nonzero sample count;
\* none if the slot is missing or has another size
ValidHours(pf, d) ==
  IF pf.day[d].len = SizeofTodayData
    THEN {h \in 0 .. 23 : pf.day[d].data[h].sampleCount > 0}
    ELSE {}

\* the sum of f[h] over the hours h in S
RECURSIVE SumOver(_, _)
SumOver(f, S) ==
  IF S = {} THEN 0
  ELSE LET h == CHOOSE x \in S : TRUE
       IN  f[h] + SumOver(f, S \ {h})

\* byte j of the week record of day d in the buffer buf
WeekField(buf, d, j) == buf[10 * d + j + 1]

\* C17: a Week read that rebuilds the buffer leaves, for every day slot, a
\* high-stress-minutes byte equal to the sum of highStressMins over the
\* hours of that day's persisted records with a nonzero sample count
C17_HighMinsIsSum ==
  [][ (WeekReadStep /\ bleHistoryDirty) =>
        \A d \in 0 .. 6 :
          WeekField(bleWeekBuffer', d, 4)
            = SumOver([h \in 0 .. 23 |->
                         prefs.day[d].data[h].highStressMins],
                      ValidHours(prefs, d)) ]_vars

\* the week record the claim describes for day d of the flash pf
ClaimedWeekRecord(pf, d) ==
  LET V == ValidHours(pf, d)
      n == Cardinality(V)
      rec == pf.day[d].data
      mean(f) == SumOver(f, V) \div n
      peak == CHOOSE p \in {rec[h].peakStress : h \in V} :
                \A h \in V : rec[h].peakStress <= p
      peakHour == CHOOSE h \in V :
                    /\ rec[h].peakStress = peak
                    /\ \A g \in V : rec[g].peakStress = peak => h <= g
      hrv == mean([h \in 0 .. 23 |-> rec[h].avgHRV])
  IN  IF n = 0
        THEN [dayIndex |-> d, valid |-> 0, avgStress |-> 0, peakStress |-> 0,
              peakHour |-> 0, avgHR |-> 0, avgHRVlo |-> 0, avgHRVhi |-> 0]
        ELSE [dayIndex |-> d, valid |-> 1,
              avgStress |-> mean([h \in 0 .. 23 |-> rec[h].avgStress]),
              peakStress |-> peak,
              peakHour |-> peakHour,
              avgHR |-> mean([h \in 0 .. 23 |-> rec[h].avgHR]),
              avgHRVlo |-> hrv % 256, avgHRVhi |-> hrv \div 256]

\* the same fields read from the week buffer buf
DecodeWeekRecord(buf, d) ==
  [dayIndex |-> WeekField(buf, d, 0), valid |-> WeekField(buf, d, 9),
   avgStress |-> WeekField(buf, d, 1), peakStress |-> WeekField(buf, d, 2),
   peakHour |-> WeekField(buf, d, 3), avgHR |-> WeekField(buf, d, 5),
   avgHRVlo |-> WeekField(buf, d, 6), avgHRVhi |-> WeekField(buf, d, 7)]

\* C18: a Week read that rebuilds the buffer leaves, for every day slot d,
\* dayIndex = d, valid = 1 exactly when the slot has the expected size and
\* an hour with a nonzero sample count, avgStress / avgHR / avgHRV the
\* unweighted integer means over the valid hours, peakStress the maximum
\* hourly peak over the valid hours and peakHour the earliest hour
\* attaining it; all statistics zero for a day with no valid hour
C18_WeekRecord ==
  [][ (WeekReadStep /\ bleHistoryDirty) =>
        \A d \in 0 .. 6 :
          DecodeWeekRecord(bleWeekBuffer', d) = ClaimedWeekRecord(prefs, d)
      ]_vars

\* C14: a clearAllData step leaves none of the 7 daily slots persisted, the
\* day buffer empty (zeros, hour fields 0..23) and the hourly accumulator
\* zero with lastMinute = 255
C14_ClearAllStep ==
  [][ ClearAll =>
        /\ \A d \in 0 .. 6 : prefs'.day[d].len = 0
        /\ todayData' = ClaimedEmptyDay
        /\ hourAccum' =
             [stressSum |-> 0, hrSum |-> 0, hrvSum |-> 0, gsrSum |-> 0,
              sampleCount |-> 0, hrSampleCount |-> 0, peakStress |-> 0,
              highStressMins |-> 0, lastMinute |-> 255,
              highStressThisMinute |-> FALSE, activitySum |-> 0] ]_vars

\* all slots are gone after loop iterations had filled the accumulator and
\* the flash held three days
C14_Witness ==
  /\ \A d \in 0 .. 6 : prefs.day[d].len = 0
  /\ now # U32Zero
  /\ calibrationComplete
  /\ todayData = ClaimedEmptyDay
  /\ hourAccum.sampleCount = 0
  /\ hourAccum.lastMinute = 255

\* C11: a write of the command 0x02 leaves the history-stale flag set; the
\* flag stays set until a Week read; a Week read with the flag set leaves the
\* week buffer equal to the 70 bytes packed from persisted storage and clears
\* the flag; a Week read with the flag clear leaves the cached buffer as it
\* was
C11_StaleFlagProtocol ==
  [][ /\ BleCommandWrite => bleHistoryDirty'
      /\ (bleHistoryDirty /\ ~bleHistoryDirty') => WeekReadStep
      /\ (WeekReadStep /\ bleHistoryDirty) =>
           /\ bleWeekBuffer' = PackWeekData(prefs)
           /\ Len(bleWeekBuffer') = 70
           /\ ~bleHistoryDirty'
      /\ (WeekReadStep /\ ~bleHistoryDirty) =>
           /\ bleWeekBuffer' = bleWeekBuffer
           /\ ~bleHistoryDirty' ]_vars

\* the refresh command was written, a Week read rebuilt the buffer from a
\* flash that holds data and cleared the flag
C11_Witness ==
  /\ commandValue = <<2>>
  /\ lastRead = "week"
  /\ ~bleHistoryDirty
  /\ bleWeekBuffer = PackWeekData(prefs)
  /\ bleWeekBuffer # InitWeekBuffer

\* a Week read returned the cached buffer although storage has moved on
C11_WitnessCached ==
  /\ lastRead = "week"
  /\ reads = 2
  /\ ~bleHistoryDirty
  /\ bleWeekBuffer # PackWeekData(prefs)
  /\ bleWeekBuffer # InitWeekBuffer

\* ------------------------------------------------------------------------
\* Stress fusion engine
\* ------------------------------------------------------------------------
Abs(x) == IF x < 0 THEN -x ELSE x

\* Arduino constrain(amt, low, high)
Constrain(amt, low, high) ==
  IF amt < low THEN low ELSE IF amt > high THEN high ELSE amt

\* float mapFloat(x, in_min, in_max, out_min, out_max), all in FP units
MapFloat(x, in_min, in_max, out_min, out_max) ==
  ((x - in_min) * (out_max - out_min)) \div (in_max - in_min) + out_min

ActSTILL == 0
ActLIGHT == 1
ActACTIVE == 2
ActEXERCISE == 3

\* HRV_ACTIVITY_MULTIPLIER[4] = {1.0, 0.95, 0.80, 0.65}, in percent
HrvActivityMultiplier(act) ==
  CASE act = ActSTILL -> 100
    [] act = ActLIGHT -> 95
    [] act = ActACTIVE -> 80
    [] OTHER -> 65

\* the level with the LIGHT and ACTIVE thresholds exchanged
UpdateActivityLevelSwapped(variance) ==
  IF variance < 5 THEN ActSTILL
  ELSE IF variance < 150 THEN ActLIGHT
  ELSE IF variance < 30 THEN ActACTIVE
  ELSE ActEXERCISE

\* void updateActivityLevel(): the level for a motion variance in VP units
UpdateActivityLevel(variance) ==
  IF variance < 5 THEN ActSTILL
  ELSE IF variance < 30 THEN ActLIGHT
  ELSE IF variance < 150 THEN ActACTIVE
  ELSE ActEXERCISE

\* the activity weight in percent (lines 1156-1188)
ActivityWeight(act, pmr) ==
  IF act = ActEXERCISE THEN (IF pmr > 50 * FP THEN 40 ELSE 30)
  ELSE IF act = ActACTIVE THEN (IF pmr > 30 * FP THEN 60 ELSE 50)
  ELSE IF act = ActLIGHT THEN (IF pmr > 20 * FP THEN 90 ELSE 80)
  ELSE (IF pmr > 15 * FP THEN 110 ELSE 100)

\* the weighted stress without the constrain
AdjustedStressUnclamped(rawStress, weight) == (rawStress * weight) \div 100

\* adjustedStress = constrain(rawStress * activityWeight, 0, 100)
AdjustedStress(rawStress, weight) ==
  Constrain((rawStress * weight) \div 100, 0, 100 * FP)

\* alpha * x + (1.0 - alpha) * prev, alpha in percent
Smooth(alpha, x, prev) == (alpha * x + (100 - alpha) * prev) \div 100

\* the moving average taken whatever the deviation
TrackGsrMaxSwingAlways(gsrDiff, swing) ==
  (10 * gsrDiff + 90 * swing) \div 100

\* gsrMaxSwing after "if (gsrDiff > gsrMaxSwing) gsrMaxSwing = (0.1 *
\* gsrDiff) + (0.9 * gsrMaxSwing)"
TrackGsrMaxSwing(gsrDiff, swing) ==
  IF gsrDiff > swing THEN (10 * gsrDiff + 90 * swing) \div 100 ELSE swing

\* the HRV score without the constrain
HrvScoreUnclamped(f) ==
  LET activityAdjustedHRVBaseline ==
        (f.longTermHRV * HrvActivityMultiplier(f.currentActivity)) \div 100
  IN  IF f.hrSensorActive /\ f.count >= HRV_WARMUP_COUNT
        THEN MapFloat(f.currentHRV,
                      (activityAdjustedHRVBaseline * 40) \div 100,
                      activityAdjustedHRVBaseline, 100 * FP, 0)
        ELSE 0

\* hrvScore of calculateStressIndex (lines 1098-1107): constrain(mapFloat(
\* currentHRV, baseline * 0.4, baseline, 100.0, 0.0), 0, 100) once the
\* estimator is warmed up, 0 before
HrvScore(f) ==
  LET activityAdjustedHRVBaseline ==
        (f.longTermHRV * HrvActivityMultiplier(f.currentActivity)) \div 100
  IN  IF f.hrSensorActive /\ f.count >= HRV_WARMUP_COUNT
        THEN Constrain(MapFloat(f.currentHRV,
                                (activityAdjustedHRVBaseline * 40) \div 100,
                                activityAdjustedHRVBaseline, 100 * FP, 0),
                       0, 100 * FP)
        ELSE 0

\* float calculateStressIndex(); f holds the globals and statics the function
\* reads.  Returns the globals and statics it writes; stressIndex is the
\* returned data-path value.
CalculateStressIndex(f) ==
  LET hrvReady == f.hrSensorActive /\ f.count >= HRV_WARMUP_COUNT
      hrvScore == HrvScore(f)
      gsrDiff == Abs(f.currentGSR - f.baselineGSR)
      swing == TrackGsrMaxSwing(gsrDiff, f.gsrMaxSwing)
      gsrScore == Constrain(((gsrDiff * FP) \div swing) * 100, 0, 100 * FP)
      hrChange == Abs(f.currentHR * FP - f.previousHR)
      gsrChange == Abs(f.currentGSR - f.previousGSR)
      normalizedMotion == f.motionVariance + 1
      pmr == IF normalizedMotion > 1
               THEN Constrain((((hrChange * 50) \div 100
                                + (gsrChange * 50) \div 100) * VP)
                              \div normalizedMotion, 0, 1000 * FP)
               ELSE (hrChange + gsrChange) * 10
      rawStress == IF hrvReady THEN (60 * hrvScore + 40 * gsrScore) \div 100
                   ELSE gsrScore
      adjustedStress ==
        AdjustedStress(rawStress, ActivityWeight(f.currentActivity, pmr))
      data == Smooth(90, adjustedStress, f.smoothedStressData)
      changeRate == Abs(adjustedStress - f.smoothedStressDisplay)
      changeAcceleration == Abs(adjustedStress - f.previousAdjustedStress)
      anxietyDetected == /\ adjustedStress > 60 * FP
                         /\ changeRate > 10 * FP
                         /\ changeAcceleration > 6 * FP
      displayAlpha == IF anxietyDetected THEN 90 ELSE 40
      disp == Smooth(displayAlpha, adjustedStress, f.smoothedStressDisplay)
  IN  [gsrMaxSwing |-> swing,
       physiologicalToMotionRatio |-> pmr,
       previousHR |-> f.currentHR * FP,
       previousGSR |-> f.currentGSR,
       previousAdjustedStress |-> adjustedStress,
       smoothedStressData |-> data,
       smoothedStressDisplay |-> disp,
       stressIndexDisplay |-> disp,
       stressIndex |-> data,
       rawStress |-> rawStress,
       gsrScore |-> gsrScore]

\* ------------------------------------------------------------------------
\* SpecFusion: fusion cycles over sensor values drawn from bounded sets
\* ------------------------------------------------------------------------
\* outputs of the HRV estimator <<count, currentHRV, longTermHRV>>: before
\* warm-up; RMSSD 0 at warm-up; variability far above the baseline; RMSSD 0
\* with a decayed baseline
HrvStates ==
  { <<0, 0, 50 * FP>>, <<20, 0, 4950>>, <<30, 120 * FP, 50 * FP>>,
    <<30, 0, 1 * FP>> }
\* outputs of the GSR tracker <<currentGSR, baselineGSR>> within the 12-bit
\* ADC range: at baseline, top of range, bottom of range
GsrStates ==
  { <<2000 * FP, 2000 * FP>>, <<4095 * FP, 2000 * FP>>, <<0, 2050 * FP>> }
HeartRates == {0, 180}
\* motion variances in VP units, one per activity level
MotionVariances == {0, 20, 100, 500}

InitFusionSpec ==
  \E cfg \in SensorConfigs : InitWith(FreshFlash, cfg[1], cfg[2])

\* the calibration averages delivered by the ADC readings
CalibratedBaselines == {2000 * FP, 2050 * FP}

\* the iterations of loop() up to the end of the 5 s GSR calibration
\* (lines 712-728)
FusionCalibrate ==
  /\ pc = "loop"
  /\ ~calibrationComplete
  /\ now' = U32Add(now, U32OfInt(5000))
  /\ calibrationComplete' = TRUE
  /\ baselineGSR' \in CalibratedBaselines
  /\ UNCHANGED <<syncedTime, lastSyncedDay, clockOut, commandValue, pc,
                 calibrationStartTime, devicePoweredOff, hrSensorActive,
                 mpuReady, lastHourCheck, lastAccumUpdate, storeVars,
                 sensorVars, stressIndexDisplay, motionVariance, longTermHRV,
                 count, gsrMaxSwing, physiologicalToMotionRatio, previousHR,
                 previousGSR, smoothedStressData, smoothedStressDisplay,
                 previousAdjustedStress, cycles, bleVars, hrvVars, probeVars,
                 raceVars>>

\* one pass of the sensing section of loop() (lines 797-808) with the
\* values the sensor components deliver, ending in calculateStressIndex()
\* a sensor read whether or not the sensor initialized
SensedAlways(ready, delivered, held) == delivered

\* "if (mpuReady && calibrationComplete) { updateMotion(); ... }" and
\* "if (hrSensorActive && calibrationComplete) updateHeartRate()": the value
\* a global holds after the guarded update
Sensed(ready, delivered, held) == IF ready THEN delivered ELSE held

FusionCycleWith(hs, gs, hr, mv) ==
    LET variance == Sensed(mpuReady, mv, motionVariance)
        act == Sensed(mpuReady, UpdateActivityLevel(variance),
                      currentActivity)
        r == CalculateStressIndex(
               [hrSensorActive |-> hrSensorActive,
                count |-> Sensed(hrSensorActive, hs[1], count),
                currentHRV |-> Sensed(hrSensorActive, hs[2], currentHRV),
                longTermHRV |-> Sensed(hrSensorActive, hs[3], longTermHRV),
                currentHR |-> Sensed(hrSensorActive, hr, currentHR),
                currentGSR |-> gs[1], baselineGSR |-> gs[2],
                gsrMaxSwing |-> gsrMaxSwing,
                motionVariance |-> variance, currentActivity |-> act,
                previousHR |-> previousHR, previousGSR |-> previousGSR,
                smoothedStressData |-> smoothedStressData,
                smoothedStressDisplay |-> smoothedStressDisplay,
                previousAdjustedStress |-> previousAdjustedStress])
    IN  /\ calibrationComplete /\ ~devicePoweredOff
        /\ cycles < MaxCycles
        /\ cycles' = cycles + 1
        /\ motionVariance' = variance
        /\ currentActivity' = act
        /\ count' = Sensed(hrSensorActive, hs[1], count)
        /\ currentHRV' = Sensed(hrSensorActive, hs[2], currentHRV)
        /\ longTermHRV' = Sensed(hrSensorActive, hs[3], longTermHRV)
        /\ currentHR' = Sensed(hrSensorActive, hr, currentHR)
        /\ currentGSR' = gs[1]
        /\ baselineGSR' = gs[2]
        /\ gsrMaxSwing' = r.gsrMaxSwing
        /\ physiologicalToMotionRatio' = r.physiologicalToMotionRatio
        /\ previousHR' = r.previousHR
        /\ previousGSR' = r.previousGSR
        /\ previousAdjustedStress' = r.previousAdjustedStress
        /\ smoothedStressData' = r.smoothedStressData
        /\ smoothedStressDisplay' = r.smoothedStressDisplay
        /\ stressIndexDisplay' = r.stressIndexDisplay
        /\ stressIndex' = r.stressIndex
        /\ lastRawStress' = r.rawStress
        /\ lastGsrScore' = r.gsrScore
        /\ motionDetected' = Sensed(mpuReady, variance > 20, motionDetected)
        /\ UNCHANGED <<clockVars, loopVars, storeVars, bleTodayBuffer,
                       bleWeekBuffer, liveValue, deviceConnected,
                       lastBLENotify, reads, lastRead, hrvVars, raceVars,
                       credited>>

FusionCycle ==
  \E hs \in HrvStates, gs \in GsrStates, hr \in HeartRates,
     mv \in MotionVariances :
    /\ pc = "loop"
    /\ FusionCycleWith(hs, gs, hr, mv)

NextFusion == FusionCalibrate \/ FusionCycle

\* ------------------------------------------------------------------------
\* HRV estimator
\* ------------------------------------------------------------------------
\* the largest r with r * r <= n, for 0 <= n < 2^31
RECURSIVE ISqrtIn(_, _, _)
ISqrtIn(n, lo, hi) ==
  IF lo >= hi THEN lo
  ELSE LET mid == (lo + hi + 1) \div 2
       IN  IF mid * mid <= n THEN ISqrtIn(n, mid, hi)
           ELSE ISqrtIn(n, lo, mid - 1)
ISqrt(n) == ISqrtIn(n, 0, 46340)

\* the globals of the estimator
HrvState ==
  [rrBuffer |-> rrBuffer, head |-> head, count |-> count,
   currentHRV |-> currentHRV, longTermHRV |-> longTermHRV]

\* rrBuffer[(head - 1 + BUFFER_SIZE) % BUFFER_SIZE]
PrevBeat(h) == h.rrBuffer[(h.head - 1 + BUFFER_SIZE) % BUFFER_SIZE]

\* abs(rrIntervalMs - prevBeat) / (float)prevBeat > 0.20: the float quotient
\* is compared with the double 0.20, which lies below the float nearest to
\* 1/5, so a deviation of exactly one fifth is rejected as well
IsOutlier(rrIntervalMs, prevBeat) ==
  5 * Abs(rrIntervalMs - prevBeat) >= prevBeat

\* the interval stored without the outlier test
StoredIntervalUnfiltered(h, rrIntervalMs) == rrIntervalMs

\* the value addRRInterval stores at rrBuffer[head]
StoredInterval(h, rrIntervalMs) ==
  IF h.count > 0 /\ IsOutlier(rrIntervalMs, PrevBeat(h))
    THEN PrevBeat(h) ELSE rrIntervalMs

\* the sum with the newest interval paired with the oldest as well
RECURSIVE SumSqAround(_, _)
SumSqAround(h, n) ==
  LET i == n - 1
      cur == (h.head - h.count + i + BUFFER_SIZE) % BUFFER_SIZE
      nxt == (h.head - h.count + i + 1 + BUFFER_SIZE) % BUFFER_SIZE
      newest == h.rrBuffer[(h.head - 1 + BUFFER_SIZE) % BUFFER_SIZE]
      oldest == h.rrBuffer[(h.head - h.count + BUFFER_SIZE) % BUFFER_SIZE]
  IN  IF n = 0 THEN (oldest - newest) * (oldest - newest)
      ELSE SumSqAround(h, i)
             + (h.rrBuffer[nxt] - h.rrBuffer[cur])
                 * (h.rrBuffer[nxt] - h.rrBuffer[cur])

\* sumSq of calculateRMSSD after the passes i = 0 .. n-1 of its loop
RECURSIVE SumSq(_, _)
SumSq(h, n) ==
  IF n = 0 THEN 0
  ELSE LET i == n - 1
           cur == (h.head - h.count + i + BUFFER_SIZE) % BUFFER_SIZE
           nxt == (h.head - h.count + i + 1 + BUFFER_SIZE) % BUFFER_SIZE
           diff == h.rrBuffer[nxt] - h.rrBuffer[cur]
       IN  SumSq(h, i) + diff * diff

\* float calculateRMSSD(), in FP units to a resolution of 0.1 ms; sumSq
\* stays below 2^31 for intervals of 300..2000 ms
CalculateRMSSD(h) ==
  IF h.count < 2 THEN 0
  ELSE ISqrt((SumSq(h, h.count - 1) * 100) \div (h.count - 1)) * 10

\* the warm-up test passing from the second interval on
WarmedUpAtTwo(c) == c >= 2

\* count >= HRV_WARMUP_COUNT in addRRInterval
WarmedUp(c) == c >= HRV_WARMUP_COUNT

\* void addRRInterval(int rrIntervalMs); h holds the globals before, the
\* result the globals after.  hrvLearningRate is 0.01.
AddRRInterval(h, rrIntervalMs) ==
  LET stored == StoredInterval(h, rrIntervalMs)
      h1 == [h EXCEPT !.rrBuffer[h.head] = stored,
                      !.head = (h.head + 1) % BUFFER_SIZE,
                      !.count = IF h.count < BUFFER_SIZE THEN h.count + 1
                                ELSE h.count]
      hrv == CalculateRMSSD(h1)
  IN  IF WarmedUp(h1.count)
        THEN [h1 EXCEPT !.currentHRV = hrv,
                        !.longTermHRV = (hrv + 99 * h.longTermHRV) \div 100]
        ELSE h1

\* currentBPM of detectPeakAndCalculateBPM for a steady interval: 60000 /
\* interval, 0 outside 40..200
BpmOf(interval) ==
  LET bpm == 60000 \div interval
  IN  IF bpm < 40 \/ bpm > 200 THEN 0 ELSE bpm

\* ------------------------------------------------------------------------
\* SpecHrv: heartbeats through addRRInterval into the fusion step
\* ------------------------------------------------------------------------
\* the first MaxFreeHead intervals and the intervals from SteadyUntil on
\* are drawn from RRValues, the ones in between repeat the stored
\* predecessor; MaxBeats intervals are delivered in all
MaxFreeHead == 2
SteadyUntil == 29
MaxBeats == 32

\* intervals within the range detectPeakAndCalculateBPM passes on
\* (300..2000 ms): steps of 10 % to 17 %, of exactly 20 % and above 20 %
RRValues == {600, 700, 800, 900, 1000}

BeatChoices ==
  IF beats < MaxFreeHead \/ beats >= SteadyUntil THEN RRValues
  ELSE {PrevBeat(HrvState)}

\* one pass of the sensing section of loop() in which updateHeartRate
\* detects a beat rr ms after the previous one: addRRInterval, then
\* updateGSR and calculateStressIndex with the wearer at rest
HrvCycle ==
  \E rr \in BeatChoices :
    LET h == AddRRInterval(HrvState, rr)
        hr == BpmOf(PrevBeat(h))
        r == CalculateStressIndex(
               [hrSensorActive |-> hrSensorActive,
                count |-> h.count, currentHRV |-> h.currentHRV,
                longTermHRV |-> h.longTermHRV, currentHR |-> hr,
                currentGSR |-> 2300 * FP, baselineGSR |-> baselineGSR,
                gsrMaxSwing |-> gsrMaxSwing,
                motionVariance |-> 0,
                currentActivity |-> UpdateActivityLevel(0),
                previousHR |-> previousHR, previousGSR |-> previousGSR,
                smoothedStressData |-> smoothedStressData,
                smoothedStressDisplay |-> smoothedStressDisplay,
                previousAdjustedStress |-> previousAdjustedStress])
    IN  /\ pc = "loop"
        /\ calibrationComplete /\ ~devicePoweredOff
        /\ hrSensorActive /\ mpuReady
        /\ beats < MaxBeats
        /\ beats' = beats + 1
        /\ lastRR' = rr
        /\ rrStored' = StoredAfter(rrStored, PrevBeat(h))
        /\ rrBuffer' = h.rrBuffer
        /\ head' = h.head
        /\ count' = h.count
        /\ currentHRV' = h.currentHRV
        /\ longTermHRV' = h.longTermHRV
        /\ currentHR' = hr
        /\ currentGSR' = 2300 * FP
        /\ motionVariance' = 0
        /\ currentActivity' = UpdateActivityLevel(0)
        /\ motionDetected' = FALSE
        /\ gsrMaxSwing' = r.gsrMaxSwing
        /\ physiologicalToMotionRatio' = r.physiologicalToMotionRatio
        /\ previousHR' = r.previousHR
        /\ previousGSR' = r.previousGSR
        /\ previousAdjustedStress' = r.previousAdjustedStress
        /\ smoothedStressData' = r.smoothedStressData
        /\ smoothedStressDisplay' = r.smoothedStressDisplay
        /\ stressIndexDisplay' = r.stressIndexDisplay
        /\ stressIndex' = r.stressIndex
        /\ lastRawStress' = r.rawStress
        /\ lastGsrScore' = r.gsrScore
        /\ UNCHANGED <<clockVars, loopVars, storeVars, baselineGSR, cycles,
                       bleTodayBuffer, bleWeekBuffer, liveValue,
                       deviceConnected, lastBLENotify, reads, lastRead,
                       raceVars, credited, detector, pulsePeriod,
                       ringVars>>

NextHrv == FusionCalibrate \/ HrvCycle

SpecHrv == InitTime /\ [][NextHrv]_vars

\* C19: whatever intervals addRRInterval has received, the HRV value is not
\* negative; while fewer than 20 intervals have been stored the HRV value is
\* 0 and the personal baseline 50, and a fusion step takes the GSR score as
\* the raw stress
C19_WarmUp ==
  /\ currentHRV >= 0
  /\ count = (IF beats < 30 THEN beats ELSE 30)
  /\ beats < 20 =>
       /\ currentHRV = 0
       /\ longTermHRV = 50 * FP
       /\ lastRawStress = lastGsrScore

\* 19 intervals that are not all equal are stored and a fusion step has run
\* with a GSR score above 0
C19_Witness ==
  /\ beats = 19
  /\ count = 19
  /\ rrBuffer[0] # rrBuffer[1]
  /\ currentHRV = 0
  /\ longTermHRV = 50 * FP
  /\ lastGsrScore > 0
  /\ lastRawStress = lastGsrScore

\* the warm-up has ended with an HRV above 0 that enters the raw stress
C19_WitnessAfter ==
  /\ beats >= 20
  /\ currentHRV > 0
  /\ lastRawStress # lastGsrScore

\* C20: when addRRInterval receives an interval that deviates by more than
\* 20 % from the stored predecessor, the slot it fills holds the
\* predecessor, and the buffer, its indices, the HRV value and the baseline
\* are what they would be had the interval been equal to its predecessor -
\* so every later RMSSD is as well
C20_OutlierReplaced ==
  [][ ( /\ beats' = beats + 1
        /\ count > 0
        /\ 100 * Abs(lastRR' - PrevBeat(HrvState)) > 20 * PrevBeat(HrvState) )
      =>
      /\ rrBuffer'[head] = PrevBeat(HrvState)
      /\ HrvState' = AddRRInterval(HrvState, PrevBeat(HrvState)) ]_vars

\* an interval of 600 ms arrived after a stored 900 ms once the warm-up was
\* over and the ring buffer had wrapped: the buffer holds no 600 from it
C20_Witness ==
  /\ beats > 30
  /\ lastRR = 600
  /\ rrBuffer[(head - 1 + BUFFER_SIZE) % BUFFER_SIZE] = 900
  /\ currentHRV > 0

SpecFusion == InitFusionSpec /\ [][NextFusion]_vars

\* ------------------------------------------------------------------------
\* Properties: day rollover (SpecDay, Spec)
\* ------------------------------------------------------------------------
\* a step in which checkHourChange saw an hour different from the tracked one
HourChangeStep ==
  pc = "check" /\ pc' = "loop" /\ currentHour # -1 /\ currentHour' # currentHour

\* the hour of the active clock at the current tick
ActiveHour ==
  IF syncedTime.isValid THEN GetCurrentTime(syncedTime, now).hour
  ELSE TickHour(now)

\* C2: starting from day index d (startDay), once checkHourChange has seen 24
\* consecutive hour transitions the day index is (d+1) mod 7, whichever clock
\* is active, and the step that advances the index leaves the in-memory day
\* buffer empty.
C2_DayIndexAfter24Hours ==
  /\ [](hourTransitions = 24 => currentDay = (startDay + 1) % DAYS_TO_STORE)
  /\ [][currentDay' # currentDay => todayData' = EmptyDay]_vars

\* C3: with valid synced time, a detected hour change at which the synced
\* clock has passed midnight (tracked hour 23, new hour 0) is a day rollover:
\* currentDay advances by one modulo 7, the new index is persisted and the
\* day buffer is reset to empty.
C3_SyncedMidnightRollsOver ==
  [][(HourChangeStep /\ syncedTime.isValid /\ currentHour = 23
        /\ currentHour' = 0)
       => /\ currentDay' = (currentDay + 1) % DAYS_TO_STORE
          /\ prefs'.currentDay = currentDay'
          /\ todayData' = EmptyDay]_vars

\* ------------------------------------------------------------------------
\* Properties: hour finalization (Spec)
\* ------------------------------------------------------------------------
\* the summary the specification prescribes for an accumulator with samples:
\* every average is the integer quotient of its sum and its count
ClaimedSummary(hour, acc) ==
  [hour |-> hour,
   avgStress |-> acc.stressSum \div acc.sampleCount,
   peakStress |-> acc.peakStress,
   highStressMins |-> acc.highStressMins,
   avgHR |-> IF acc.hrSampleCount > 0 THEN acc.hrSum \div acc.hrSampleCount
             ELSE 0,
   avgHRV |-> IF acc.hrSampleCount > 0 THEN acc.hrvSum \div acc.hrSampleCount
              ELSE 0,
   avgGSR |-> acc.gsrSum \div acc.sampleCount,
   sampleCount |-> acc.sampleCount,
   avgActivityLevel |-> acc.activitySum \div acc.sampleCount]

\* what every finalization does besides the save
FinalizeResets ==
  /\ hourAccum' = EmptyAccum
  /\ bleHistoryDirty'
  /\ currentHour' = ActiveHour

\* C4 as stated: every detected hour change persists the whole day buffer
\* under the current day index with the old hour's record taken from the
\* accumulator, resets the accumulator (lastMinute 255), sets the stale flag
\* and tracks the new hour.
C4_FinalizeAlwaysSaves ==
  [][HourChangeStep
       => /\ prefs'.day[currentDay].len = SizeofTodayData
          /\ prefs'.day[currentDay].data[currentHour].sampleCount
               = hourAccum.sampleCount
          /\ prefs'.day[currentDay].data[currentHour].peakStress
               = hourAccum.peakStress
          /\ prefs'.day[currentDay].data[currentHour].highStressMins
               = hourAccum.highStressMins
          /\ FinalizeResets]_vars

\* C4 amended: a detected hour change whose accumulator holds samples writes
\* the old hour's record (averages = sum / count), persists the whole day
\* buffer under the current day index; one whose accumulator is empty writes
\* and persists nothing; both reset the accumulator, set the stale flag and
\* track the new hour.
C4_FinalizeStep ==
  [][HourChangeStep
       => LET written == [todayData EXCEPT
                            ![currentHour] = ClaimedSummary(currentHour,
                                                            hourAccum)]
              buffer == IF hourAccum.sampleCount > 0 THEN written
                        ELSE todayData
          IN  /\ hourAccum.sampleCount > 0
                   => prefs'.day[currentDay] = Slot(written)
              /\ hourAccum.sampleCount = 0 => prefs'.day = prefs.day
              /\ todayData' = IF currentDay' # currentDay THEN EmptyDay
                              ELSE buffer
              /\ FinalizeResets]_vars

\* a finalized hour with samples, heart-rate samples fewer than samples
C4_Witness ==
  /\ pc = "loop"
  /\ bleHistoryDirty
  /\ hourAccum = EmptyAccum
  /\ \E h \in Hours :
       /\ prefs.day[currentDay].len = SizeofTodayData
       /\ prefs.day[currentDay].data[h].sampleCount = 2
       /\ prefs.day[currentDay].data[h].avgHR = 72
       /\ prefs.day[currentDay].data[h].avgStress = 57
       /\ currentHour = (h + 1) % 24

\* C5 as stated: when an hour is finalized with an empty accumulator, that
\* hour's record in the day buffer is zero/invalid afterwards, whatever the
\* buffer held before.
C5_EmptyHourIsZero ==
  [][(HourChangeStep /\ hourAccum.sampleCount = 0)
       => /\ todayData'[currentHour].sampleCount = 0
          /\ TodayFlags(todayData'[currentHour]) % 2 = 0]_vars

\* C5 amended: when an hour is finalized with an empty accumulator nothing is
\* written: the persisted slots are unchanged and the hour's record keeps its
\* prior content (unless the same step's day rollover empties the buffer), so
\* it is zero/invalid afterwards if it was zero/invalid before.
C5_EmptyHourLeftAsIs ==
  [][(HourChangeStep /\ hourAccum.sampleCount = 0)
       => /\ prefs'.day = prefs.day
          /\ todayData' = IF currentDay' # currentDay THEN EmptyDay
                          ELSE todayData
          /\ todayData[currentHour].sampleCount = 0
               => /\ todayData'[currentHour].sampleCount = 0
                  /\ TodayFlags(todayData'[currentHour]) % 2 = 0]_vars

\* an hour was finalized without samples (the device was powered off) and
\* its record is still empty
C5_Witness ==
  /\ pc = "loop"
  /\ devicePoweredOff
  /\ hourTransitions > 0
  /\ hourAccum = EmptyAccum
  /\ currentHour > 0
  /\ todayData[currentHour - 1].sampleCount = 0
  /\ prefs.day[currentDay].len = 0

\* C6: there are exactly 7 persisted slots and currentDay stays in 0..6; a
\* step that saves writes only the slot of the current day index: the other
\* six slots keep their contents, and the persisted index changes only in
\* the rollover, to the advanced index.
C6_SaveFrame ==
  /\ [](currentDay \in Days /\ DOMAIN prefs.day = Days)
  /\ [][/\ \A d \in Days : d # currentDay => prefs'.day[d] = prefs.day[d]
        /\ prefs'.currentDay # prefs.currentDay
             => /\ currentDay' = (currentDay + 1) % DAYS_TO_STORE
                /\ prefs'.currentDay = currentDay']_vars

\* after a rollover the old day's slot and the new day's slot are both
\* persisted
C6_Witness ==
  /\ currentDay # startDay
  /\ prefs.day[startDay].len = SizeofTodayData
  /\ prefs.day[startDay].data[23].sampleCount > 0
  /\ prefs.day[currentDay].len = SizeofTodayData
  /\ prefs.day[currentDay].data[0].sampleCount > 0

\* ------------------------------------------------------------------------
\* Properties: time synchronizer (SpecTime)
\* ------------------------------------------------------------------------
\* the payloads the interface description accepts: opcode 0x01, 8 bytes or
\* more, year (little-endian) in 2024..2100 and every field in range
WellFormedSync(value) ==
  /\ Len(value) >= 8
  /\ value[1] = 1
  /\ LET year == value[2] + 256 * value[3]
     IN  2024 <= year /\ year <= 2100
  /\ value[4] \in 1 .. 12
  /\ value[5] \in 1 .. 31
  /\ value[6] \in 0 .. 23
  /\ value[7] \in 0 .. 59
  /\ value[8] \in 0 .. 59

\* a step that writes a new value into the Command characteristic
WriteStep == commandValue' # commandValue

\* C7: a command with opcode 0x01 that is too short or has a field out of
\* range changes nothing: syncedTime, lastSyncedDay and the tracked hour keep
\* their values.
C7_InvalidSyncIgnored ==
  [][(WriteStep /\ Len(commandValue') > 0 /\ commandValue'[1] = 1
        /\ ~WellFormedSync(commandValue'))
       => UNCHANGED <<syncedTime, lastSyncedDay, currentHour>>]_vars

\* an invalid payload was written after a valid sync, whose time survived
C7_Witness ==
  /\ commandValue \in InvalidSyncCmds
  /\ syncedTime.isValid
  /\ syncedTime.hour = 23
  /\ lastSyncedDay = 15
  /\ now # syncedTime.millisAtSync

\* the clock the specification prescribes: the synced hour:minute:second
\* advanced by floor(((t - t0) mod 2^32) / 1000) seconds, hour modulo 24
ClaimedClock(st, t) ==
  LET total == st.hour * 3600 + st.minute * 60 + st.second
               + U32Div1000(U32Sub(t, st.millisAtSync))
  IN  HMS((total \div 3600) % 24, (total \div 60) % 60, total % 60)

\* C8: with valid synced time, for every sync tick t0 and current tick t
\* (also t < t0 after the counter wrapped) getCurrentTime returns the synced
\* time advanced by floor(((t - t0) mod 2^32) / 1000) seconds with carries
\* into minutes and hours, hour modulo 24; reading the clock leaves the
\* stored day, month and year (the whole syncedTime) unchanged.
C8_ElapsedModular ==
  /\ [](syncedTime.isValid => clockOut = ClaimedClock(syncedTime, now))
  /\ [][now' # now => syncedTime' = syncedTime]_vars

\* the clock was read at a tick below the sync tick (the counter wrapped)
\* and the elapsed time carried into the hour
C8_Witness ==
  /\ syncedTime.isValid
  /\ ~U32Geq(now, syncedTime.millisAtSync)
  /\ clockOut.hour # syncedTime.hour
  /\ clockOut.second # syncedTime.second

\* C9: until the first valid time sync is applied, isValid is false and
\* getCurrentTime returns 0:0:0; isValid becomes true only by a well-formed
\* sync command and stays true ever after.
C9_ValidOnlyAfterSync ==
  /\ [](~syncedTime.isValid => clockOut = HMS(0, 0, 0))
  /\ [][syncedTime.isValid => syncedTime'.isValid]_vars
  /\ [][(~syncedTime.isValid /\ syncedTime'.isValid)
          => WellFormedSync(commandValue')]_vars

\* the clock was read at a later tick before any sync, after an invalid
\* sync command had been written
C9_Witness ==
  /\ ~syncedTime.isValid
  /\ now = U32OfInt(HourMs)
  /\ commandValue = CmdYear0FE8

\* what the end-to-end scenario promises once payload cmd has been written:
\* valid synced time 14:30:00 on day 15, month 6, and a clock that is
\* 14:30:00 advanced by the ticks elapsed since the write
ScenarioSynced(cmd) ==
  commandValue = cmd
    => /\ syncedTime.isValid
       /\ syncedTime.hour = 14 /\ syncedTime.minute = 30
       /\ syncedTime.second = 0
       /\ syncedTime.day = 15 /\ syncedTime.month = 6
       /\ clockOut = ClaimedClock(
            [hour |-> 14, minute |-> 30, second |-> 0,
             millisAtSync |-> syncedTime.millisAtSync], now)

\* the write of payload cmd takes the current tick as the sync tick
ScenarioWrite(cmd) ==
  (WriteStep /\ commandValue' = cmd) => syncedTime'.millisAtSync = now

\* C10 as stated: the payload with year bytes E8 0F (year field 0x0FE8) is
\* accepted and sets 14:30:00 on day 15 month 6; later clock reads advance
\* from it.
C10_Scenario0FE8 ==
  /\ []ScenarioSynced(CmdYear0FE8)
  /\ [][ScenarioWrite(CmdYear0FE8)]_vars

\* C10 amended: the payload with year bytes E8 07 (year field 0x07E8 = 2024)
\* is accepted and sets 14:30:00 on day 15 month 6; later clock reads
\* advance from it.
C10_Scenario07E8 ==
  /\ []ScenarioSynced(CmdJun15)
  /\ [](commandValue = CmdJun15 => syncedTime.year = 2024)
  /\ [][ScenarioWrite(CmdJun15)]_vars

\* the 2024 payload was written and the clock read a minute later
C10_Witness ==
  /\ commandValue = CmdJun15
  /\ syncedTime.year = 2024
  /\ clockOut = HMS(14, 31, 0)

\* ------------------------------------------------------------------------
\* Properties: stress fusion (SpecFusion)
\* ------------------------------------------------------------------------
\* C1: after any sequence of evaluations the data-path value stressIndex and
\* the display-path value stressIndexDisplay lie in [0,100].
C1_StressInRange ==
  /\ 0 <= stressIndex /\ stressIndex <= 100 * FP
  /\ 0 <= stressIndexDisplay /\ stressIndexDisplay <= 100 * FP

\* two evaluations at the extremes: no variability, GSR at the top of the
\* ADC range, standing still; the data path has climbed to 99 and the
\* display path, after its fast anxiety step, to 94
C1_Witness ==
  /\ cycles >= 2
  /\ hrSensorActive /\ count >= HRV_WARMUP_COUNT /\ currentHRV = 0
  /\ currentGSR = 4095 * FP
  /\ currentActivity = ActSTILL
  /\ stressIndex >= 99 * FP
  /\ stressIndexDisplay = 94 * FP

\* ------------------------------------------------------------------------
\* SpecMotion: updateMotion and updateActivityLevel over the variance range
\* ------------------------------------------------------------------------
\* motion variances up to MaxVariance, in VP units (0.001); the float
\* subtraction of updateMotion can come out slightly below 0
MaxVariance == 200

\* motionDetected = (motionVariance > 0.02) of updateMotion
MotionDetected(variance) == variance > 20

\* the motion part of the sensing section of loop() (lines 797-800):
\* updateMotion() leaves the variance v, updateActivityLevel() classifies it
MotionUpdate ==
  \E v \in -2 .. MaxVariance :
    /\ pc = "loop"
    /\ mpuReady /\ ~devicePoweredOff
    /\ motionVariance' = v
    /\ motionDetected' = MotionDetected(v)
    /\ currentActivity' = UpdateActivityLevel(v)
    /\ UNCHANGED <<clockVars, loopVars, storeVars, stressIndex, currentGSR,
                   currentHR, currentHRV, stressIndexDisplay, longTermHRV,
                   count, baselineGSR, gsrMaxSwing,
                   physiologicalToMotionRatio, previousHR, previousGSR,
                   smoothedStressData, smoothedStressDisplay,
                   previousAdjustedStress, cycles, bleTodayBuffer,
                   bleWeekBuffer, liveValue, deviceConnected, lastBLENotify,
                   reads, lastRead, hrvVars, probeVars, raceVars>>

NextMotion == MotionUpdate

SpecMotion == InitTime /\ [][NextMotion]_vars

\* C21: the level is STILL below 0.005, LIGHT below 0.03, ACTIVE below 0.15
\* and EXERCISE otherwise; of two successive classifications the one with the
\* smaller variance never has the higher level; and a set motion-detected
\* flag (variance > 0.02) comes with a level of at least LIGHT
C21_ActivityMonotonic ==
  [][ /\ currentActivity' = (CASE motionVariance' < 5 -> 0
                               [] motionVariance' >= 5 /\ motionVariance' < 30
                                    -> 1
                               [] motionVariance' >= 30
                                    /\ motionVariance' < 150 -> 2
                               [] OTHER -> 3)
      /\ motionDetected' = (motionVariance' > 20)
      /\ motionDetected' => currentActivity' >= 1
      /\ motionVariance <= motionVariance' =>
           currentActivity <= currentActivity'
      /\ motionVariance' <= motionVariance =>
           currentActivity' <= currentActivity ]_vars

\* motion is detected at a variance of 0.025, which is classified LIGHT
C21_Witness ==
  /\ motionVariance = 25
  /\ motionDetected
  /\ currentActivity = 1

\* ------------------------------------------------------------------------
\* Properties of the GSR dynamic range
\* ------------------------------------------------------------------------
\* C22: over any sequence of fusion evaluations gsrMaxSwing never decreases
\* and is never below its initial value 100, so the divisor of the GSR score
\* is never zero
C22_SwingMonotone ==
  [][ /\ gsrMaxSwing' >= gsrMaxSwing
      /\ gsrMaxSwing >= 100 * FP
      /\ gsrMaxSwing' >= 100 * FP
      /\ gsrMaxSwing' > 0 ]_vars

\* the estimate has grown after a deviation above it, and an evaluation
\* with a smaller deviation has followed
C22_Witness ==
  /\ cycles >= 2
  /\ gsrMaxSwing > 100 * FP
  /\ Abs(currentGSR - baselineGSR) < gsrMaxSwing

\* ------------------------------------------------------------------------
\* SpecDegraded: the loop and the fusion step with a sensor that failed to
\* initialize
\* ------------------------------------------------------------------------
\* setup() with the MAX30102, the MPU6050 or both not answering
DegradedConfigs == { <<FALSE, FALSE>>, <<FALSE, TRUE>>, <<TRUE, FALSE>> }

InitDegraded ==
  \E cfg \in DegradedConfigs : InitWith(WeekFlash(4), cfg[1], cfg[2])

\* one pass of the sensing section over the GSR readings; a sensor that
\* did not initialize is never read, whatever it would deliver
DegradedCycle ==
  \E gs \in GsrStates :
    /\ pc = "loop"
    /\ FusionCycleWith(<<30, 120 * FP, 50 * FP>>, gs, 180, 500)

NextDegraded == BleLoop \/ LoopCheck \/ DegradedCycle

SpecDegraded == InitDegraded /\ [][NextDegraded]_vars

\* C23: without the heart-rate sensor every fusion evaluation takes the GSR
\* score as the raw stress, the accumulator gathers no HR/HRV sample and
\* every hour record written has avgHR = avgHRV = 0; without the motion
\* sensor the activity level stays STILL and the motion-detected flag false
C23_SensorFailure ==
  [][ /\ ~hrSensorActive =>
           /\ ~hrSensorActive'
           /\ lastRawStress' = lastGsrScore'
           /\ currentHR' = 0
           /\ hourAccum'.hrSum = 0
           /\ hourAccum'.hrvSum = 0
           /\ hourAccum'.hrSampleCount = 0
           /\ \A h \in 0 .. 23 :
                todayData'[h] # todayData[h] =>
                  todayData'[h].avgHR = 0 /\ todayData'[h].avgHRV = 0
           /\ \A h \in 0 .. 23 :
                prefs'.day[currentDay].data[h] # prefs.day[currentDay].data[h]
                  => /\ prefs'.day[currentDay].data[h].avgHR = 0
                     /\ prefs'.day[currentDay].data[h].avgHRV = 0
      /\ ~mpuReady =>
           /\ ~mpuReady'
           /\ currentActivity' = 0
           /\ ~motionDetected' ]_vars

\* with both sensors failed the loop has calibrated, accumulated, finalized
\* and persisted an hour with samples, and the fusion step has run with a
\* GSR score above 0
C23_Witness ==
  /\ ~hrSensorActive /\ ~mpuReady
  /\ calibrationComplete
  /\ hourTransitions >= 1
  /\ \E h \in 0 .. 23 :
       /\ prefs.day[currentDay].data[h].sampleCount > 0
       /\ prefs.day[currentDay].data[h].avgStress > 0
       /\ prefs.day[currentDay].data[h].avgHR = 0
  /\ cycles >= 1
  /\ lastGsrScore > 0
  /\ lastRawStress = lastGsrScore

\* ------------------------------------------------------------------------
\* SpecMinute: the high-stress minute tracking of the accumulator, with the
\* clock set by time-sync commands
\* ------------------------------------------------------------------------
MaxTrackedMinutes == 3
MaxTrackedSeconds == 2

\* stress below and above the 70 threshold
MinuteReadings ==
  { Reading(4550, 2100 * FP, 72, 45 * FP, 1),
    Reading(7050, 2600 * FP, 72, 45 * FP, 1) }

\* the minutes counted so far in this hour, after an iteration that took
\* the accumulator from acc to acc2
CreditedAfter(cr, acc, acc2) ==
  LET base == IF acc.sampleCount = 0 THEN {} ELSE cr
  IN  IF acc2.highStressMins # acc.highStressMins
        THEN base \cup {acc.lastMinute} ELSE base

MinuteLoop ==
  \E dt \in {SecondMs, MinuteMs}, rd \in MinuteReadings :
    /\ \/ dt = SecondMs /\ (U32Div1000(now) % 60) < MaxTrackedSeconds
       \/ dt = MinuteMs
          /\ ((U32Div1000(now) \div 60) % 60) < MaxTrackedMinutes
    /\ LoopBody(dt, FALSE, rd)
    /\ credited' = CreditedAfter(credited, hourAccum, hourAccum')

\* the app sets the clock to 14:30:00
MinuteCommandWrite == OnWrite(CmdJun15)

NextMinute == MinuteLoop \/ LoopCheck \/ MinuteCommandWrite

SpecMinute == InitTime /\ [][NextMinute]_vars

\* an accumulation step: updateHourlyAccumulator() ran past its calibration
\* guard
AccumStep == hourAccum'.sampleCount = hourAccum.sampleCount + 1

\* C24 (first part): within one hour highStressMins increases only at an
\* accumulation step whose detected minute differs from the last recorded
\* minute, by exactly 1 if a sample accumulated since the previous minute
\* change had stress > 70 and by 0 otherwise
C24_CountsOnMinuteChange ==
  [][ /\ AccumStep =>
           /\ hourAccum'.highStressMins =
                hourAccum.highStressMins
                + (IF /\ hourAccum'.lastMinute # hourAccum.lastMinute
                      /\ hourAccum.highStressThisMinute
                     THEN 1 ELSE 0)
           /\ hourAccum'.highStressThisMinute =
                (\/ stressIndex' > 70 * FP
                 \/ /\ hourAccum'.lastMinute = hourAccum.lastMinute
                    /\ hourAccum.highStressThisMinute)
      /\ hourAccum'.highStressMins > hourAccum.highStressMins => AccumStep
    ]_vars

C24_Witness ==
  /\ hourAccum.highStressMins = 2
  /\ hourAccum.sampleCount >= 3
  /\ ~hourAccum.highStressThisMinute

\* C24: the first part, and highStressMins never increases twice for the
\* same minute of the hour
C24_HighStressMinutes ==
  [][ /\ AccumStep =>
           /\ hourAccum'.highStressMins =
                hourAccum.highStressMins
                + (IF /\ hourAccum'.lastMinute # hourAccum.lastMinute
                      /\ hourAccum.highStressThisMinute
                     THEN 1 ELSE 0)
           /\ hourAccum'.highStressThisMinute =
                (\/ stressIndex' > 70 * FP
                 \/ /\ hourAccum'.lastMinute = hourAccum.lastMinute
                    /\ hourAccum.highStressThisMinute)
      /\ hourAccum'.highStressMins > hourAccum.highStressMins => AccumStep
      /\ hourAccum'.highStressMins > hourAccum.highStressMins
           => \/ hourAccum.sampleCount = 0
              \/ hourAccum.lastMinute \notin credited
    ]_vars

\* ------------------------------------------------------------------------
\* Properties of a steady heartbeat
\* ------------------------------------------------------------------------
\* the estimator holds n intervals of ms milliseconds and nothing else
SteadyBeats(n, ms) ==
  /\ beats = n
  /\ count = n
  /\ lastRR = ms
  /\ \A i \in 0 .. n - 1 : rrBuffer[i] = ms

\* C25: after 20 RR intervals of exactly 800 ms fed into an empty HRV
\* estimator RMSSD is 0 and the HRV score of the fusion step is 100, for
\* every activity level
C25_SteadyBeat ==
  SteadyBeats(20, 800) =>
    /\ CalculateRMSSD(HrvState) = 0
    /\ currentHRV = 0
    /\ \A act \in {ActSTILL, ActLIGHT, ActACTIVE, ActEXERCISE} :
         HrvScore([hrSensorActive |-> hrSensorActive, count |-> count,
                   currentHRV |-> currentHRV, longTermHRV |-> longTermHRV,
                   currentActivity |-> act]) = 100 * FP

\* the 20th interval of 800 ms has been stored and the fusion step has
\* taken the HRV score into the raw stress
C25_Witness ==
  /\ SteadyBeats(20, 800)
  /\ hrSensorActive
  /\ longTermHRV = 4950
  /\ lastRawStress = (60 * 100 * FP + 40 * lastGsrScore) \div 100

\* ------------------------------------------------------------------------
\* Properties of the tracked hour under time sync
\* ------------------------------------------------------------------------
\* C26: every change of the tracked current hour from one hour to another,
\* the one made by an applied time-sync command included, finalizes the old
\* hour (its record is written from the accumulator when it has samples)
\* and resets the accumulator, so that a finalized summary for hour h holds
\* only samples accumulated while the tracked hour was h
C26_HourChangeFinalizes ==
  [][ (currentHour # -1 /\ currentHour' # currentHour)
      => /\ hourAccum' = EmptyAccum
         /\ hourAccum.sampleCount > 0
              => todayData'[currentHour]
                   = ClaimedSummary(currentHour, hourAccum)
                 \/ currentDay' # currentDay ]_vars

\* ------------------------------------------------------------------------
\* Properties of the week cache
\* ------------------------------------------------------------------------
\* C27: whenever the history-stale flag is false the cached week buffer is
\* what packWeekData computes from the persisted slots, and every step that
\* changes a persisted slot sets the flag
C27_CacheCoherent ==
  /\ [](~bleHistoryDirty => bleWeekBuffer = PackWeekData(prefs))
  /\ [][prefs'.day # prefs.day => bleHistoryDirty']_vars

\* ------------------------------------------------------------------------
\* SpecRollover: day rollovers of a device whose flash holds earlier days
\* ------------------------------------------------------------------------
\* restarts on day index 6 and 1 with the slots of days 0..2 written in the
\* previous cycle
InitRollover == \E cd \in {1, 6} : InitWith(WeekFlash(cd), TRUE, TRUE)

SpecRollover == InitRollover /\ [][NextDay]_vars

\* the step of checkHourChange that advances the day index
RolloverStep == currentDay' # currentDay

\* the record packWeekData builds for day d from the persisted slots pf is
\* the one of a day without data
WeekRecordEmpty(pf, d) ==
  \A j \in 0 .. 9 :
    PackWeekData(pf)[10 * d + j + 1] = (IF j = 0 THEN d ELSE 0)

\* C28: right after a day rollover to index d' the persisted slot d' holds
\* no records of the previous 7-day cycle: a week read and a startup reload
\* of slot d' report the day as empty, as the in-memory day buffer is
C28_NewDaySlotEmpty ==
  [][RolloverStep
       => /\ todayData' = EmptyDay
          /\ LoadTodayData(prefs', currentDay') = todayData'
          /\ WeekRecordEmpty(prefs', currentDay') ]_vars

\* C29: at a day rollover the hour that just ended is persisted into the
\* old day's slot before the day index advances and the day buffer is
\* reset: after the step the slot of the old index holds the finalized
\* record of that hour (when it had samples) and the day buffer of the new
\* index does not
C29_LastHourInOldSlot ==
  [][RolloverStep
       => /\ currentDay' = (currentDay + 1) % DAYS_TO_STORE
          /\ hourAccum.sampleCount > 0 =>
               /\ prefs'.day[currentDay].len = SizeofTodayData
               /\ prefs'.day[currentDay].data[currentHour]
                    = ClaimedSummary(currentHour, hourAccum)
               /\ \A h \in 0 .. 23 :
                    h # currentHour =>
                      prefs'.day[currentDay].data[h] = todayData[h]
          /\ todayData'[currentHour].sampleCount = 0
          /\ todayData' = EmptyDay ]_vars

\* the day index has advanced past hour 23, whose record with samples is in
\* the old day's slot and not in the day buffer
C29_Witness ==
  /\ currentDay = (startDay + 1) % DAYS_TO_STORE
  /\ hourTransitions >= 1
  /\ currentHour = 0
  /\ prefs.currentDay = currentDay
  /\ prefs.day[startDay].len = SizeofTodayData
  /\ prefs.day[startDay].data[23].sampleCount > 0
  /\ todayData[23].sampleCount = 0

\* ------------------------------------------------------------------------
\* SpecCache: the Week read callback in the BLE task beside the hour check
\* of the loop task; no lock guards bleHistoryDirty
\* ------------------------------------------------------------------------
\* WeekReadCallback::onRead has found the flag set and has run
\* packWeekData (lines 397-398); "bleHistoryDirty = false" is still to come
WeekReadBegin ==
  /\ racePc = "idle"
  /\ reads < MaxReads
  /\ bleHistoryDirty
  /\ bleWeekBuffer' = PackWeekData(prefs)
  /\ racePc' = "packed"
  /\ UNCHANGED <<clockVars, loopVars, storeVars, sensorVars, fusionVars,
                 bleTodayBuffer, liveValue, deviceConnected, lastBLENotify,
                 motionDetected, reads, lastRead, hrvVars, probeVars, snap>>

\* the callback clears the flag (line 399) and hands the buffer to the
\* characteristic
WeekReadEnd ==
  /\ racePc \in {"packed", "invalidated"}
  /\ bleHistoryDirty' = FALSE
  /\ racePc' = "idle"
  /\ reads' = reads + 1
  /\ lastRead' = "week"
  /\ UNCHANGED <<clockVars, loopVars, currentHour, currentDay, todayData,
                 hourAccum, prefs, hourTransitions, startDay, sensorVars,
                 fusionVars, bleTodayBuffer, bleWeekBuffer, liveValue,
                 deviceConnected, lastBLENotify, motionDetected, hrvVars,
                 probeVars, snap>>

\* a Week read that finds the flag clear serves the cached buffer
WeekReadCached == racePc = "idle" /\ ~bleHistoryDirty /\ BleWeekRead

\* the refresh command; the BLE task runs its callbacks one after another
CacheCommandWrite == racePc = "idle" /\ BleCommandWrite

\* checkHourChange in the loop task; racePc records a finalization that
\* sets the flag while the Week read callback is between packWeekData and
\* the clearing of the flag
CacheCheck ==
  /\ LoopCheckBody
  /\ racePc' = IF racePc = "packed" /\ currentHour # -1
                  /\ currentHour' # currentHour
                 THEN "invalidated" ELSE racePc

NextCache ==
  \/ BleLoop
  \/ CacheCheck
  \/ WeekReadBegin
  \/ WeekReadEnd
  \/ WeekReadCached
  \/ CacheCommandWrite

SpecCache == InitBleSpec /\ [][NextCache]_vars

\* C30: an invalidation of the week cache is never lost: when an hour
\* finalization or a 0x02 command has set the history-stale flag while a
\* Week read callback was between rebuilding the buffer and clearing the
\* flag, the flag is still set once the callback has finished, so that a
\* later Week read rebuilds the buffer
C30_NoLostInvalidation ==
  [][ (racePc = "invalidated" /\ racePc' = "idle") => bleHistoryDirty' ]_vars

\* ------------------------------------------------------------------------
\* SpecUptime: the unsynced hour tracking over an uptime that takes
\* millis() past 2^32 ms (49.7 days)
\* ------------------------------------------------------------------------
MaxUptimeHours == 1194

UptimeLoop ==
  /\ hourTransitions < MaxUptimeHours
  /\ LoopIter(HourMs, FALSE, DayReading)

NextUptime == UptimeLoop \/ LoopCheck

SpecUptime == InitTime /\ [][NextUptime]_vars

\* the step in which loop() runs checkHourChange
HourCheckStep == pc = "check" /\ pc' = "loop"

\* C31: the hour check runs at least 60000 ms of millis() after the
\* previous one; each detected hour change finalizes the previously tracked
\* hour, once, and tracks the hour of the active clock; without a time sync
\* in between, consecutive tracked hours differ by exactly one modulo 24
C31_HourlyTracking ==
  [][ /\ HourCheckStep => Elapsed(now, lastHourCheck, 60000)
      /\ HourCheckStep => currentHour' = ActiveHour
      /\ HourChangeStep =>
           /\ hourAccum' = EmptyAccum
           /\ hourAccum.sampleCount > 0 /\ currentDay' = currentDay
                => todayData' = [todayData EXCEPT ![currentHour] =
                                   ClaimedSummary(currentHour, hourAccum)]
           /\ hourTransitions' = hourTransitions + 1
      /\ (HourChangeStep /\ syncedTime' = syncedTime)
           => currentHour' = (currentHour + 1) % 24 ]_vars

\* ------------------------------------------------------------------------
\* SpecBoundary: loop iterations half a second apart around an hour
\* boundary of the synced clock
\* ------------------------------------------------------------------------
MaxBoundarySeconds == 2
MaxBoundaryMinutes == 2

HalfSecondMs == SecondMs \div 2
\* half a second short of a minute
LongStepMs == MinuteMs - HalfSecondMs

\* the app sets the clock to 14:59:00
CmdBeforeHour == SyncCmd(232, 7, 6, 15, 14, 59, 0)

BoundaryLoop ==
  \E dt \in {HalfSecondMs, LongStepMs}, rd \in MinuteReadings :
    /\ \/ /\ dt = HalfSecondMs
          /\ ((U32Div1000(now) + 1) % 60) < MaxBoundarySeconds
       \/ /\ dt = LongStepMs
          /\ ((U32Div1000(now) \div 60) % 60) < MaxBoundaryMinutes
    /\ LoopIter(dt, FALSE, rd)

BoundaryCommandWrite ==
  /\ U32Div1000(now) < MaxBoundarySeconds
  /\ commandValue = << >>
  /\ OnWrite(CmdBeforeHour)

NextBoundary == BoundaryLoop \/ LoopCheck \/ BoundaryCommandWrite

SpecBoundary == InitTime /\ [][NextBoundary]_vars

\* C32: for every finalized hour highStressMins is the number of minutes
\* of that hour holding an accumulated sample with stress > 70, the last
\* minute before the hour boundary included: the minutes counted at the
\* minute changes and the minute in progress at the finalization when it
\* holds such a sample
C32_AllHighMinutesCounted ==
  [][ (HourChangeStep /\ hourAccum.sampleCount > 0
         /\ currentDay' = currentDay)
      => todayData'[currentHour].highStressMins
           = hourAccum.highStressMins
             + (IF hourAccum.highStressThisMinute THEN 1 ELSE 0) ]_vars

\* ------------------------------------------------------------------------
\* Beat detection: updateHeartRate and detectPeakAndCalculateBPM
\* ------------------------------------------------------------------------
\* an unsigned long below 2^31 as an integer
U32Int(u) == u.hi * Limb + u.lo

MaxOf(S) == CHOOSE x \in S : \A y \in S : y <= x
MinOf(S) == CHOOSE x \in S : \A y \in S : x <= y

\* updateHeartRate up to the call of detectPeakAndCalculateBPM: the sample
\* enters the IR ring; maxValue is the largest entry of the ring, minValue
\* the smallest among irBuffer[0] and the positive entries, and maxValue
\* is raised by one when the two are equal
StoreIR(d, irValue) ==
  LET buf == [d.irBuffer EXCEPT ![d.irBufferIndex] = irValue]
      vals == {buf[i] : i \in 0 .. (IR_BUFFER_SIZE - 1)}
      mn == MinOf({buf[0]} \cup {v \in vals : v > 0})
      mx == MaxOf(vals)
  IN  [d EXCEPT !.irBuffer = buf,
                !.irBufferIndex = (d.irBufferIndex + 1) % IR_BUFFER_SIZE,
                !.minValue = mn,
                !.maxValue = IF mx = mn THEN mn + 1 ELSE mx]

\* long peakThreshold = minValue + (maxValue - minValue) * 0.6
PeakThreshold(d) == (10 * d.minValue + 6 * (d.maxValue - d.minValue)) \div 10

\* the beat condition without the refractory time
IsBeatNoRefractory(d, irValue, currentTime) ==
  /\ irValue > d.lastValue
  /\ irValue > PeakThreshold(d)
  /\ ~d.peakDetected

\* irValue > lastValue && irValue > peakThreshold && !peakDetected &&
\* (currentTime - lastPeakTime) > 300
IsBeat(d, irValue, currentTime) ==
  /\ irValue > d.lastValue
  /\ irValue > PeakThreshold(d)
  /\ ~d.peakDetected
  /\ Elapsed(currentTime, d.lastPeakTime, 301)

\* every interval is passed on
RRInRangeAny(rrInterval) == TRUE

\* rrInterval >= 300 && rrInterval <= 2000
RRInRange(rrInterval) ==
  rrInterval.hi = 0 /\ rrInterval.lo >= 300 /\ rrInterval.lo <= 2000

\* interval of pass i of the BPM loop: peakTimes[currIndex] -
\* peakTimes[prevIndex]
PeakInterval(d, i) ==
  U32Sub(d.peakTimes[(d.peakIndex - i + PEAK_BUFFER_SIZE)
                       % PEAK_BUFFER_SIZE],
         d.peakTimes[(d.peakIndex - i - 1 + PEAK_BUFFER_SIZE)
                       % PEAK_BUFFER_SIZE])

\* interval > 250 && interval < 2000
IntervalValid(interval) ==
  interval.hi = 0 /\ interval.lo > 250 /\ interval.lo < 2000

\* totalInterval and validIntervals after the passes i = 1 .. n
RECURSIVE TotalInterval(_, _)
TotalInterval(d, n) ==
  IF n = 0 THEN 0
  ELSE TotalInterval(d, n - 1)
         + (IF IntervalValid(PeakInterval(d, n))
              THEN PeakInterval(d, n).lo ELSE 0)

RECURSIVE ValidIntervals(_, _)
ValidIntervals(d, n) ==
  IF n = 0 THEN 0
  ELSE ValidIntervals(d, n - 1)
         + (IF IntervalValid(PeakInterval(d, n)) THEN 1 ELSE 0)

\* 60000 / avgInterval without the range test
BpmFromMeanUnchecked(total, valid) == (60000 * FP * valid) \div total

\* currentBPM = 60000.0 / avgInterval in FP units, 0 when below 40 or
\* above 200
BpmFromMean(total, valid) ==
  IF total > 1500 * valid \/ total < 300 * valid THEN 0
  ELSE (60000 * FP * valid) \div total

\* currentBPM after a beat was stored in the peak ring
CalculateBPM(d) ==
  LET n == d.peakCount - 1
  IN  IF d.peakCount >= 3 /\ ValidIntervals(d, n) > 0
        THEN BpmFromMean(TotalInterval(d, n), ValidIntervals(d, n))
        ELSE d.currentBPM

\* void detectPeakAndCalculateBPM(long irValue) at the tick currentTime; d
\* and h hold the globals of the detector and of the HRV estimator
DetectPeakAndCalculateBPM(d, h, irValue, currentTime) ==
  LET beat == IsBeat(d, irValue, currentTime)
      rrInterval == U32Sub(currentTime, d.lastBeatTime)
      added == beat /\ d.lastBeatTime # U32Zero /\ RRInRange(rrInterval)
      d1 == [d EXCEPT !.peakDetected = TRUE,
                      !.lastPeakTime = currentTime,
                      !.lastBeatTime = currentTime,
                      !.peakTimes[d.peakIndex] = currentTime,
                      !.peakIndex = (d.peakIndex + 1) % PEAK_BUFFER_SIZE,
                      !.peakCount = IF d.peakCount < PEAK_BUFFER_SIZE
                                      THEN d.peakCount + 1 ELSE d.peakCount]
      d2 == IF beat THEN [d1 EXCEPT !.currentBPM = CalculateBPM(d1)] ELSE d
  IN  [detector |-> [d2 EXCEPT !.peakDetected = IF irValue < d.lastValue
                                                  THEN FALSE
                                                  ELSE d2.peakDetected,
                               !.lastValue = irValue],
       hrv |-> IF added THEN AddRRInterval(h, U32Int(rrInterval)) ELSE h,
       added |-> added,
       rrInterval |-> U32Int(rrInterval)]

\* void updateHeartRate() reading irValue at the tick currentTime, at
\* least 20 ms after the previous read
UpdateHeartRate(d, h, irValue, currentTime) ==
  DetectPeakAndCalculateBPM(StoreIR(d, irValue), h, irValue, currentTime)

\* ------------------------------------------------------------------------
\* SpecBeat: IR samples through updateHeartRate into the peak ring, the RR
\* ring and the fusion step
\* ------------------------------------------------------------------------
\* the first FreePassesFrom sensing passes sample a steady pulse, the
\* passes from there up to MaxPasses take any sample of IrValues after any
\* delay of FreeDelays; the power button is held during those only
FreePassesFrom == 130
MaxPasses == 133

\* IR readings: the trough of the pulse wave, a value above the detection
\* threshold and the crest
IrLow == 50000
IrMid == 50700
IrHigh == 51000
IrValues == {IrLow, IrMid, IrHigh}

\* heart periods of the steady stretch in ms: 214, 75, 37.5 and 27 beats
\* per minute
PulsePeriods == {280, 800, 1600, 2200}

\* delays between two passes of the free stretch in ms
FreeDelays == {150, 400}

\* a write cursor that is not wrapped
RingAdvanceNoWrap(cursor, capacity) == cursor + 1

\* gsrHead = (gsrHead + 1) % GSR_BUFFER_SIZE in updateGSR,
\* motionBufferIndex = (motionBufferIndex + 1) % MOTION_BUFFER_SIZE in
\* updateMotion
RingAdvance(cursor, capacity) == (cursor + 1) % capacity

\* if (gsrCount < GSR_BUFFER_SIZE) gsrCount++
RingFill(n, capacity) == IF n < capacity THEN n + 1 ELSE n

PeriodChoices == IF pulsePeriod = 0 THEN PulsePeriods ELSE {pulsePeriod}

\* <<delay, IR reading>> of the next pass: trough and crest alternate half
\* a period apart during the steady stretch
SampleChoices(p) ==
  IF cycles >= FreePassesFrom THEN FreeDelays \X IrValues
  ELSE { <<p \div 2,
           IF detector.lastValue = IrLow THEN IrHigh ELSE IrLow>> }

\* one pass of the sensing section of loop() (lines 796-808) with the
\* wearer at rest: updateMotion and updateHeartRate, which reads the IR
\* value, then updateGSR and calculateStressIndex
SensePass ==
  \E p \in PeriodChoices :
    \E s \in SampleChoices(p) :
      \E u \in { UpdateHeartRate(detector, HrvState, s[2],
                                 U32Add(now, U32OfInt(s[1]))) } :
        \E r \in { CalculateStressIndex(
                     [hrSensorActive |-> hrSensorActive,
                      count |-> u.hrv.count,
                      currentHRV |-> u.hrv.currentHRV,
                      longTermHRV |-> u.hrv.longTermHRV,
                      currentHR |-> u.detector.currentBPM \div FP,
                      currentGSR |-> 2300 * FP,
                      baselineGSR |-> baselineGSR,
                      gsrMaxSwing |-> gsrMaxSwing,
                      motionVariance |-> 0,
                      currentActivity |-> UpdateActivityLevel(0),
                      previousHR |-> previousHR,
                      previousGSR |-> previousGSR,
                      smoothedStressData |-> smoothedStressData,
                      smoothedStressDisplay |-> smoothedStressDisplay,
                      previousAdjustedStress |-> previousAdjustedStress]) } :
          /\ pc = "loop"
          /\ calibrationComplete /\ ~devicePoweredOff
          /\ hrSensorActive /\ mpuReady
          /\ cycles < MaxPasses
          /\ cycles' = cycles + 1
          /\ pulsePeriod' = p
          /\ now' = U32Add(now, U32OfInt(s[1]))
          /\ motionBufferIndex' = RingAdvance(motionBufferIndex,
                                              MOTION_BUFFER_SIZE)
          /\ gsrHead' = RingAdvance(gsrHead, GSR_BUFFER_SIZE)
          /\ gsrCount' = RingFill(gsrCount, GSR_BUFFER_SIZE)
          /\ detector' = u.detector
          /\ beats' = IF u.added THEN beats + 1 ELSE beats
          /\ lastRR' = IF u.added THEN u.rrInterval ELSE lastRR
          /\ rrStored' = IF u.added
                           THEN StoredAfter(rrStored, PrevBeat(u.hrv))
                           ELSE rrStored
          /\ rrBuffer' = u.hrv.rrBuffer
          /\ head' = u.hrv.head
          /\ count' = u.hrv.count
          /\ currentHRV' = u.hrv.currentHRV
          /\ longTermHRV' = u.hrv.longTermHRV
          /\ currentHR' = u.detector.currentBPM \div FP
          /\ currentGSR' = 2300 * FP
          /\ motionVariance' = 0
          /\ currentActivity' = UpdateActivityLevel(0)
          /\ motionDetected' = FALSE
          /\ gsrMaxSwing' = r.gsrMaxSwing
          /\ physiologicalToMotionRatio' = r.physiologicalToMotionRatio
          /\ previousHR' = r.previousHR
          /\ previousGSR' = r.previousGSR
          /\ previousAdjustedStress' = r.previousAdjustedStress
          /\ smoothedStressData' = r.smoothedStressData
          /\ smoothedStressDisplay' = r.smoothedStressDisplay
          /\ stressIndexDisplay' = r.stressIndexDisplay
          /\ stressIndex' = r.stressIndex
          /\ lastRawStress' = r.rawStress
          /\ lastGsrScore' = r.gsrScore
          /\ UNCHANGED <<syncedTime, lastSyncedDay, clockOut, commandValue,
                         loopVars, storeVars, baselineGSR, bleTodayBuffer,
                         bleWeekBuffer, liveValue, deviceConnected,
                         lastBLENotify, reads, lastRead, raceVars, credited>>

\* a loop iteration during which the 10-second button hold completes:
\* enterPowerOff, or wakeFromPowerOff with the sensing calls leaving the
\* readings as they are and no heart rate yet
ButtonHold ==
  /\ cycles >= FreePassesFrom
  /\ detector # DetectorReset \/ devicePoweredOff
  /\ LoopIter(SecondMs, TRUE,
              Reading(stressIndex, currentGSR, 0, currentHRV,
                      currentActivity))

NextBeat == FusionCalibrate \/ SensePass \/ ButtonHold \/ LoopCheck

SpecBeat == InitTime /\ [][NextBeat]_vars

\* a step in which detectPeakAndCalculateBPM registers a beat
BeatStep ==
  /\ detector'.lastBeatTime = now'
  /\ detector'.lastBeatTime # detector.lastBeatTime

ChronoPeak(d, k) ==
  d.peakTimes[(d.peakIndex + PEAK_BUFFER_SIZE - d.peakCount + k - 1)
                % PEAK_BUFFER_SIZE]

\* the time from the k-th oldest peak to the next one
ChronoInterval(d, k) == U32Sub(ChronoPeak(d, k + 1), ChronoPeak(d, k))

\* the consecutive peak intervals above 250 ms and below 2000 ms
ValidPairs(d) ==
  { k \in 1 .. (d.peakCount - 1) :
      /\ U32Geq(ChronoInterval(d, k), U32OfInt(251))
      /\ ~U32Geq(ChronoInterval(d, k), U32OfInt(2000)) }

RECURSIVE SumIntervals(_, _)
SumIntervals(d, K) ==
  IF K = {} THEN 0
  ELSE LET k == CHOOSE x \in K : TRUE
       IN  U32Int(ChronoInterval(d, k)) + SumIntervals(d, K \ {k})

\* 60000 / mean of the valid intervals in FP units, 0 when the mean is
\* above 1500 ms (below 40 BPM) or below 300 ms (above 200 BPM)
ExpectedBPM(d) ==
  LET n == Cardinality(ValidPairs(d))
      sum == SumIntervals(d, ValidPairs(d))
  IN  IF sum > 1500 * n \/ sum < 300 * n THEN 0
      ELSE (60000 * FP * n) \div sum

\* C34: the reported BPM is 0 (unknown) or within [40,200]; it is 0 while
\* fewer than 3 peak timestamps are stored; a beat that leaves at least 3
\* timestamps with a valid consecutive interval in the peak ring sets it
\* to 60000 / the mean of the valid intervals, 0 if that is outside
\* [40,200]; any other step of the detector keeps it
C34_BpmFromPeakRing ==
  [][ /\ detector'.currentBPM = 0
         \/ (detector'.currentBPM >= 40 * FP
             /\ detector'.currentBPM <= 200 * FP)
      /\ currentHR' = detector'.currentBPM \div FP
      /\ detector'.peakCount < 3 => detector'.currentBPM = 0
      /\ (BeatStep /\ detector'.peakCount >= 3
             /\ ValidPairs(detector') # {})
           => detector'.currentBPM = ExpectedBPM(detector')
      /\ (detector' # DetectorReset
            /\ ~(BeatStep /\ detector'.peakCount >= 3
                   /\ ValidPairs(detector') # {}))
           => detector'.currentBPM = detector.currentBPM ]_vars

\* a full peak ring of valid intervals whose mean is above 1500 ms: the
\* computed 37.5 BPM are reported as 0
C34_Witness ==
  /\ detector.peakCount = PEAK_BUFFER_SIZE
  /\ Cardinality(ValidPairs(detector)) = PEAK_BUFFER_SIZE - 1
  /\ SumIntervals(detector, ValidPairs(detector))
       > 1500 * (PEAK_BUFFER_SIZE - 1)
  /\ detector.currentBPM = 0
  /\ detector.lastBeatTime = now

\* a step in which addRRInterval stores an interval
StoreStep == beats' = beats + 1

\* the ring slot of the i-th oldest of n stored intervals
ChronoSlot(h, n, i) == (h + BUFFER_SIZE - n + i - 1) % BUFFER_SIZE

\* C35: every interval stored in the RR ring lies in [300,2000] ms and
\* differs from the one stored before it by at most 20 % of that one; the
\* predecessor the outlier test divides by is therefore above 0; and an
\* interval more than 20 % away from the last stored value is stored as
\* that value, which so stays the same
C35_StoredIntervals ==
  [][ /\ count' = Len(rrStored')
      /\ \A i \in 1 .. Len(rrStored') :
           /\ rrBuffer'[ChronoSlot(head', count', i)] = rrStored'[i]
           /\ rrStored'[i] >= 300 /\ rrStored'[i] <= 2000
           /\ i > 1 => 5 * Abs(rrStored'[i] - rrStored'[i - 1])
                         <= rrStored'[i - 1]
      /\ (StoreStep /\ count > 0) => PrevBeat(HrvState) > 0
      /\ (StoreStep /\ count > 0
            /\ 5 * Abs(lastRR' - PrevBeat(HrvState)) > PrevBeat(HrvState))
           => rrBuffer'[head] = PrevBeat(HrvState) ]_vars

\* the full ring has just received an interval more than 20 % away from
\* the last stored one, and holds the last stored one in its place
C35_Witness ==
  /\ count = BUFFER_SIZE
  /\ Len(rrStored) = BUFFER_SIZE
  /\ 5 * Abs(lastRR - rrStored[BUFFER_SIZE - 1]) > rrStored[BUFFER_SIZE - 1]
  /\ rrStored[BUFFER_SIZE] = rrStored[BUFFER_SIZE - 1]
  /\ PrevBeat(HrvState) = rrStored[BUFFER_SIZE]
  /\ detector.lastBeatTime = now

\* the sum of the squared differences of the successive entries of a
\* sequence: Len(s) - 1 terms
RECURSIVE SuccessiveSq(_)
SuccessiveSq(s) ==
  IF Len(s) < 2 THEN 0
  ELSE (s[2] - s[1]) * (s[2] - s[1]) + SuccessiveSq(Tail(s))

\* C36: at every write cursor and count of the RR ring calculateRMSSD sums
\* the count-1 squared differences of the chronologically adjacent stored
\* intervals, oldest to newest, without a term for the newest and the
\* oldest across the wrap point, and returns 0 when fewer than 2 intervals
\* are stored
C36_RmssdPairs ==
  /\ count = Len(rrStored)
  /\ count < 2 => CalculateRMSSD(HrvState) = 0
  /\ count >= 2 =>
       /\ SumSq(HrvState, count - 1) = SuccessiveSq(rrStored)
       /\ CalculateRMSSD(HrvState)
            = ISqrt((SuccessiveSq(rrStored) * 100) \div (count - 1)) * 10

\* the ring has wrapped, the cursor stands inside it, and the newest
\* interval differs from the oldest
C36_Witness ==
  /\ count = BUFFER_SIZE
  /\ head > 0
  /\ beats > BUFFER_SIZE
  /\ rrStored[1] # rrStored[BUFFER_SIZE]
  /\ rrBuffer[head] = rrStored[1]
  /\ SuccessiveSq(rrStored) > 0

C38_SummaryBounds ==
  [][ /\ hourAccum'.hrSampleCount <= hourAccum'.sampleCount
      /\ \A h \in 0 .. 23 :
           (todayData'[h] # todayData[h] /\ todayData'[h].sampleCount > 0)
             => /\ todayData'[h].avgStress <= todayData'[h].peakStress
                /\ todayData'[h].peakStress <= 100 ]_vars

\* an hour was finalized from samples with and without a heart rate: its
\* average stress is below its peak of 70
C38_Witness ==
  /\ hourTransitions >= 1
  /\ \E h \in 0 .. 23 :
       /\ todayData[h].sampleCount >= 2
       /\ todayData[h].peakStress = 70
       /\ todayData[h].avgStress < 70
       /\ todayData[h].avgStress > 45

\* every write cursor is within [0, capacity) and every count within
\* [0, capacity]
RingsInRange ==
  /\ head \in 0 .. (BUFFER_SIZE - 1)
  /\ count \in 0 .. BUFFER_SIZE
  /\ gsrHead \in 0 .. (GSR_BUFFER_SIZE - 1)
  /\ gsrCount \in 0 .. GSR_BUFFER_SIZE
  /\ detector.peakIndex \in 0 .. (PEAK_BUFFER_SIZE - 1)
  /\ detector.peakCount \in 0 .. PEAK_BUFFER_SIZE
  /\ detector.irBufferIndex \in 0 .. (IR_BUFFER_SIZE - 1)
  /\ motionBufferIndex \in 0 .. (MOTION_BUFFER_SIZE - 1)

\* a loop iteration that runs wakeFromPowerOff
WakeStep == devicePoweredOff /\ ~devicePoweredOff'

\* C39: each ring buffer's write cursor is within [0, capacity), each
\* stored count within [0, capacity], and a count that has reached the
\* capacity never decreases: RR (30), GSR (50), peak times (10), IR (128)
\* and motion (50)
C39_CountsNeverDecrease ==
  [][ /\ RingsInRange'
      /\ count = BUFFER_SIZE => count' = BUFFER_SIZE
      /\ gsrCount = GSR_BUFFER_SIZE => gsrCount' = GSR_BUFFER_SIZE
      /\ detector.peakCount = PEAK_BUFFER_SIZE
           => detector'.peakCount = PEAK_BUFFER_SIZE ]_vars

\* C39 as the code has it: cursors and counts stay in range, the RR and
\* the GSR count never decrease, and the peak count decreases only when
\* wakeFromPowerOff re-initializes the beat detector, which returns the
\* peak count, the peak cursor and the IR cursor to 0
C39_CountsResetOnWake ==
  [][ /\ RingsInRange'
      /\ count' >= count
      /\ gsrCount' >= gsrCount
      /\ ~WakeStep => detector'.peakCount >= detector.peakCount
      /\ (WakeStep /\ hrSensorActive)
           => /\ detector'.peakCount = 0
              /\ detector'.peakIndex = 0
              /\ detector'.irBufferIndex = 0 ]_vars

\* the RR, GSR and IR rings have wrapped and the device was woken from
\* power-off after beats had been stored: the peak ring is empty again
C39_Witness ==
  /\ ~devicePoweredOff
  /\ detector = DetectorReset
  /\ count = BUFFER_SIZE /\ beats > BUFFER_SIZE
  /\ gsrCount = GSR_BUFFER_SIZE
  /\ cycles > IR_BUFFER_SIZE

====
